---- MODULE Spec2Model ----
(***************************************************************************)
(* A model of the notebook tool server JupyterMCPServer                    *)
(* (src/src/client.js, lines 187-1554).                                    *)
(*                                                                         *)
(* The server keeps no state of its own: every tool handler reads the      *)
(* notebook file (fs.readJson), changes the decoded document in memory and *)
(* writes it back (fs.writeJson).  The state of the model is therefore the *)
(* file system, plus history variables recording the last tool call.       *)
(*                                                                         *)
(* Encoding of JavaScript values:                                          *)
(*   - a string is a sequence of one-character strings, so that            *)
(*     String.prototype.split and Array.prototype.join are computed;       *)
(*   - an array is a sequence; JavaScript indexes from 0, TLA+ from 1;     *)
(*   - an object is a function from its keys (strings) to values, a field  *)
(*     that is absent is absent from the DOMAIN;                           *)
(*   - a cell's source is either a string or an array of strings, written  *)
(*     [isArray |-> FALSE, parts |-> <<s>>] and                            *)
(*     [isArray |-> TRUE, parts |-> <<s1, .., sn>>];                       *)
(*   - null, numbers of the document and opaque output records are the     *)
(*     strings "null", "1", "o1", ...                                      *)
(***************************************************************************)
EXTENDS Integers, Sequences, FiniteSets, TLC

VARIABLES
  files,    \* the file system: a function from the paths that exist to the decoded notebook stored there
  created,  \* the paths whose document descends from notebook_create through tool calls only
  last,     \* the tool call just served, until the caller has received its response: the request,
            \* the response and the file system before the call (NoCall when no response is pending)
  prev,     \* history: the call whose response was received last (recorded by SpecPairs only)
  calls     \* the tool calls in flight (used by SpecConc only): per client, the request and the notebook it has read

vars == <<files, created, last, prev, calls>>

----------------------------------------------------------------------------
(* Bounds of the model *)

MaxCells == 3
MaxSize == 4

----------------------------------------------------------------------------
(* JavaScript built-ins used by the handlers *)

NL == "\n"

Min(a, b) == IF a < b THEN a ELSE b
Max(a, b) == IF a > b THEN a ELSE b

\* arr.slice(from, to) for 0 <= from, to (0-based, to exclusive, clamped to the length)
slice(arr, from, to) ==
  LET t == Min(to, Len(arr))
  IN  IF from >= t THEN <<>> ELSE [k \in 1..(t - from) |-> arr[from + k]]

\* arr.splice(start, deleteCount, ...items): the array after the call.
\* A negative start counts from the end, and start is clamped to [0, length].
splice(arr, start, deleteCount, items) ==
  LET len == Len(arr)
      actualStart == IF start < 0 THEN Max(len + start, 0) ELSE Min(start, len)
      actualDelete == Min(Max(deleteCount, 0), len - actualStart)
  IN  slice(arr, 0, actualStart) \o items \o slice(arr, actualStart + actualDelete, len)

\* str.split(sep) for a one-character separator: always at least one piece
split(str, sep) ==
  LET pieces[i \in 0..Len(str)] ==
        IF i = 0 THEN << <<>> >>
        ELSE IF str[i] = sep THEN Append(pieces[i - 1], <<>>)
        ELSE [pieces[i - 1] EXCEPT ![Len(pieces[i - 1])] = Append(@, str[i])]
  IN  pieces[Len(str)]

\* arr.join(sep) for an array of strings
RECURSIVE join(_, _)
join(arr, sep) ==
  IF arr = <<>> THEN <<>>
  ELSE IF Len(arr) = 1 THEN arr[1]
  ELSE arr[1] \o sep \o join(Tail(arr), sep)

\* mutant of spread: a key of both objects keeps the value of the first
spread_FirstWins(a, b) == [k \in DOMAIN a \cup DOMAIN b |-> IF k \in DOMAIN a THEN a[k] ELSE b[k]]

\* { ...a, ...b }
spread(a, b) == [k \in DOMAIN a \cup DOMAIN b |-> IF k \in DOMAIN b THEN b[k] ELSE a[k]]

\* obj.field = value, and delete obj.field
SetField(obj, field, value) == [k \in DOMAIN obj \cup {field} |-> IF k = field THEN value ELSE obj[k]]
DelField(obj, field) == [k \in DOMAIN obj \ {field} |-> obj[k]]

Str(s) == [isArray |-> FALSE, parts |-> <<s>>]
Arr(fragments) == [isArray |-> TRUE, parts |-> fragments]

\* Array.isArray(cell.source) ? cell.source.join('') : cell.source
normalizeSource(source) == IF source.isArray THEN join(source.parts, <<>>) ELSE source.parts[1]

----------------------------------------------------------------------------
(* Documents *)

EmptyObject == [k \in {} |-> "null"]

createEmptyNotebook ==
  [ cells |-> <<>>,
    metadata |-> [ kernelspec |-> [display_name |-> "Python 3", language |-> "python", name |-> "python3"],
                   language_info |-> [name |-> "python", version |-> "3.8.0"] ],
    nbformat |-> 4,
    nbformat_minor |-> 4 ]

\* The size of a stored document, which MaxSize bounds: one per cell, plus its
\* characters, its metadata keys and its outputs.
CellSize(cell) ==
  1 + (IF "source" \in DOMAIN cell THEN Len(normalizeSource(cell.source)) ELSE 0)
    + (IF "metadata" \in DOMAIN cell THEN Cardinality(DOMAIN cell.metadata) ELSE 0)
    + (IF "outputs" \in DOMAIN cell THEN Len(cell.outputs) ELSE 0)

RECURSIVE CellsSize(_)
CellsSize(cells) == IF cells = <<>> THEN 0 ELSE CellSize(cells[1]) + CellsSize(Tail(cells))

WithinBounds(notebook) ==
  "cells" \in DOMAIN notebook =>
    /\ Len(notebook.cells) <= MaxCells
    /\ CellsSize(notebook.cells) <= MaxSize

----------------------------------------------------------------------------
(* The tool handlers, from the decoded notebook each has read to what it    *)
(* returns or throws.  A handler that reaches its fs.writeJson has          *)
(* writes = TRUE and notebook = the document it writes; a handler that      *)
(* throws first has isError = TRUE (the dispatcher's catch turns the        *)
(* exception into an error response) and writes = FALSE.                    *)
(* text is the response message: <<its wording, the number it quotes>>.     *)

Returned(notebook, wording, n) ==
  [isError |-> FALSE, text |-> <<wording, n>>, notebook |-> notebook, writes |-> TRUE]

Thrown(notebook, wording, n) ==
  [isError |-> TRUE, text |-> <<wording, n>>, notebook |-> notebook, writes |-> FALSE]

\* a handler that returns without writing the notebook
Answered(notebook, wording, n) ==
  [isError |-> FALSE, text |-> <<wording, n>>, notebook |-> notebook, writes |-> FALSE]

\* cellIndex >= notebook.cells.length || cellIndex < 0
OutOfBounds(notebook, cellIndex) == cellIndex >= Len(notebook.cells) \/ cellIndex < 0

\* notebook.cells[cellIndex] = cell
SetCell(notebook, cellIndex, cell) == [notebook EXCEPT !.cells[cellIndex + 1] = cell]

\* the cell record built by addCell, splitCell and bulkAddCells
NewCell(cellType, source) ==
  IF cellType = "code"
  THEN [cell_type |-> cellType, metadata |-> EmptyObject, source |-> Str(source),
        execution_count |-> "null", outputs |-> <<>>]
  ELSE [cell_type |-> cellType, metadata |-> EmptyObject, source |-> Str(source)]


\* mutant of addCell: inserts at index, before the anchor, not after it
addCell_InsertsBefore(notebook, cellType, source, index) ==
  LET newCell == NewCell(cellType, source)
  IN  Returned([notebook EXCEPT !.cells = splice(@, index, 0, <<newCell>>)],
               "Added cell at index", index + 1)

\* mutant of addCell: the new cell is pushed at the end
addCell_Appends(notebook, cellType, source, index) ==
  LET newCell == NewCell(cellType, source)
  IN  Returned([notebook EXCEPT !.cells = Append(@, newCell)], "Added cell at index", index + 1)

addCell(notebook, cellType, source, index) ==
  LET newCell == NewCell(cellType, source)
  IN  Returned([notebook EXCEPT !.cells = splice(@, index + 1, 0, <<newCell>>)],
               "Added cell at index", index + 1)

\* mutant of editCell: the cell is made anew from its type and the new source
editCell_MakesNewCell(notebook, cellIndex, newSource) ==
  IF OutOfBounds(notebook, cellIndex)
  THEN Thrown(notebook, "Cell index out of bounds", cellIndex)
  ELSE Returned(SetCell(notebook, cellIndex,
                        NewCell(notebook.cells[cellIndex + 1].cell_type, newSource)),
                "Updated cell", cellIndex)

editCell(notebook, cellIndex, newSource) ==
  IF OutOfBounds(notebook, cellIndex)
  THEN Thrown(notebook, "Cell index out of bounds", cellIndex)
  ELSE Returned(SetCell(notebook, cellIndex,
                        SetField(notebook.cells[cellIndex + 1], "source", Str(newSource))),
                "Updated cell", cellIndex)


\* mutant of deleteCell: the bounds check forgets the negative indices
deleteCell_NoLowerBound(notebook, cellIndex) ==
  IF cellIndex >= Len(notebook.cells)
  THEN Thrown(notebook, "Cell index out of bounds", cellIndex)
  ELSE Returned([notebook EXCEPT !.cells = splice(@, cellIndex, 1, <<>>)],
                "Deleted cell", cellIndex)

\* mutant of deleteCell: removes the cell after the one addressed
deleteCell_OffByOne(notebook, cellIndex) ==
  IF OutOfBounds(notebook, cellIndex)
  THEN Thrown(notebook, "Cell index out of bounds", cellIndex)
  ELSE Returned([notebook EXCEPT !.cells = splice(@, cellIndex + 1, 1, <<>>)],
                "Deleted cell", cellIndex)

deleteCell(notebook, cellIndex) ==
  IF OutOfBounds(notebook, cellIndex)
  THEN Thrown(notebook, "Cell index out of bounds", cellIndex)
  ELSE Returned([notebook EXCEPT !.cells = splice(@, cellIndex, 1, <<>>)],
                "Deleted cell", cellIndex)


\* mutant of changeCellType: leaving the code type keeps execution_count and outputs
changeCellType_KeepsExecutionState(notebook, cellIndex, newType) ==
  IF OutOfBounds(notebook, cellIndex)
  THEN Thrown(notebook, "Cell index out of bounds", cellIndex)
  ELSE LET cell == SetField(notebook.cells[cellIndex + 1], "cell_type", newType)
           retyped == IF newType = "code"
                      THEN SetField(SetField(cell, "execution_count", "null"), "outputs", <<>>)
                      ELSE cell
       IN  Returned(SetCell(notebook, cellIndex, retyped), "Changed cell type", cellIndex)

\* mutant of changeCellType: a cell that has outputs keeps them when it becomes a code cell
changeCellType_CodeKeepsOutputs(notebook, cellIndex, newType) ==
  IF OutOfBounds(notebook, cellIndex)
  THEN Thrown(notebook, "Cell index out of bounds", cellIndex)
  ELSE LET old == notebook.cells[cellIndex + 1]
           cell == SetField(old, "cell_type", newType)
           retyped == IF newType = "code"
                      THEN IF "outputs" \in DOMAIN old THEN cell
                           ELSE SetField(SetField(cell, "execution_count", "null"), "outputs", <<>>)
                      ELSE DelField(DelField(cell, "execution_count"), "outputs")
       IN  Returned(SetCell(notebook, cellIndex, retyped), "Changed cell type", cellIndex)

\* mutant of changeCellType: a cell retyped to raw gets a type that is no cell type
changeCellType_RawBecomesHeading(notebook, cellIndex, newType) ==
  IF OutOfBounds(notebook, cellIndex)
  THEN Thrown(notebook, "Cell index out of bounds", cellIndex)
  ELSE LET cell == SetField(notebook.cells[cellIndex + 1], "cell_type",
                            IF newType = "raw" THEN "heading" ELSE newType)
           retyped == IF newType = "code"
                      THEN SetField(SetField(cell, "execution_count", "null"), "outputs", <<>>)
                      ELSE DelField(DelField(cell, "execution_count"), "outputs")
       IN  Returned(SetCell(notebook, cellIndex, retyped), "Changed cell type", cellIndex)

\* mutant of changeCellType: a cell that already has the new type is left as it is
changeCellType_SkipsSameType(notebook, cellIndex, newType) ==
  IF OutOfBounds(notebook, cellIndex)
  THEN Thrown(notebook, "Cell index out of bounds", cellIndex)
  ELSE IF notebook.cells[cellIndex + 1].cell_type = newType
  THEN Returned(notebook, "Changed cell type", cellIndex)
  ELSE LET cell == SetField(notebook.cells[cellIndex + 1], "cell_type", newType)
           retyped == IF newType = "code"
                      THEN SetField(SetField(cell, "execution_count", "null"), "outputs", <<>>)
                      ELSE DelField(DelField(cell, "execution_count"), "outputs")
       IN  Returned(SetCell(notebook, cellIndex, retyped), "Changed cell type", cellIndex)

changeCellType(notebook, cellIndex, newType) ==
  IF OutOfBounds(notebook, cellIndex)
  THEN Thrown(notebook, "Cell index out of bounds", cellIndex)
  ELSE LET cell == SetField(notebook.cells[cellIndex + 1], "cell_type", newType)
           retyped == IF newType = "code"
                      THEN SetField(SetField(cell, "execution_count", "null"), "outputs", <<>>)
                      ELSE DelField(DelField(cell, "execution_count"), "outputs")
       IN  Returned(SetCell(notebook, cellIndex, retyped), "Changed cell type", cellIndex)

\* the body of duplicateCell's loop, from iteration i on
RECURSIVE duplicateLoop(_, _, _, _, _)
duplicateLoop(cells, originalCell, cellIndex, i, count) ==
  IF i >= count THEN cells
  ELSE LET duplicatedCell ==
             IF originalCell.cell_type = "code"
             THEN SetField(SetField(originalCell, "execution_count", "null"), "outputs", <<>>)
             ELSE originalCell
       IN  duplicateLoop(splice(cells, cellIndex + 1 + i, 0, <<duplicatedCell>>),
                         originalCell, cellIndex, i + 1, count)

\* mutant of duplicateCell: the copies keep the original's execution_count and outputs
duplicateCell_CopiesOutputs(notebook, cellIndex, count) ==
  IF OutOfBounds(notebook, cellIndex)
  THEN Thrown(notebook, "Cell index out of bounds", cellIndex)
  ELSE LET originalCell == notebook.cells[cellIndex + 1]
           copies == [k \in 1..count |-> originalCell]
       IN  Returned([notebook EXCEPT !.cells = splice(@, cellIndex + 1, 0, copies)],
                    "Duplicated cell", cellIndex)

duplicateCell(notebook, cellIndex, count) ==
  IF OutOfBounds(notebook, cellIndex)
  THEN Thrown(notebook, "Cell index out of bounds", cellIndex)
  ELSE LET originalCell == notebook.cells[cellIndex + 1]
       IN  Returned([notebook EXCEPT !.cells = duplicateLoop(@, originalCell, cellIndex, 0, count)],
                    "Duplicated cell", cellIndex)

\* mutant of editMetadata: the notebook is written back without its cells
editMetadata_DropsCells(notebook, metadata) ==
  Returned([notebook EXCEPT !.metadata = spread(@, metadata), !.cells = <<>>],
           "Updated notebook metadata", 0)

editMetadata(notebook, metadata) ==
  Returned([notebook EXCEPT !.metadata = spread(@, metadata)], "Updated notebook metadata", 0)

editCellMetadata(notebook, cellIndex, metadata) ==
  IF OutOfBounds(notebook, cellIndex)
  THEN Thrown(notebook, "Cell index out of bounds", cellIndex)
  ELSE LET cell == notebook.cells[cellIndex + 1]
           old == IF "metadata" \in DOMAIN cell THEN cell.metadata ELSE EmptyObject
       IN  Returned(SetCell(notebook, cellIndex, SetField(cell, "metadata", spread(old, metadata))),
                    "Updated metadata for cell", cellIndex)

\* mutant of clearCellOutputs: a cell that is not a code cell is refused
clearCellOutputs_RefusesNonCode(notebook, cellIndex) ==
  IF OutOfBounds(notebook, cellIndex)
  THEN Thrown(notebook, "Cell index out of bounds", cellIndex)
  ELSE LET cell == notebook.cells[cellIndex + 1]
       IN  IF cell.cell_type # "code"
           THEN Thrown(notebook, "Cell is not a code cell", cellIndex)
           ELSE Returned(SetCell(notebook, cellIndex,
                                 SetField(SetField(cell, "outputs", <<>>), "execution_count", "null")),
                         "Cleared outputs for cell", cellIndex)

clearCellOutputs(notebook, cellIndex) ==
  IF OutOfBounds(notebook, cellIndex)
  THEN Thrown(notebook, "Cell index out of bounds", cellIndex)
  ELSE LET cell == notebook.cells[cellIndex + 1]
           cleared == IF cell.cell_type = "code"
                      THEN SetField(SetField(cell, "outputs", <<>>), "execution_count", "null")
                      ELSE cell
       IN  Returned(SetCell(notebook, cellIndex, cleared), "Cleared outputs for cell", cellIndex)

\* mutant of clearAllOutputs: the outputs are emptied, the execution_count stays
clearAllOutputs_KeepsExecutionCount(notebook) ==
  Returned([notebook EXCEPT !.cells =
              [k \in DOMAIN @ |->
                 IF @[k].cell_type = "code" THEN SetField(@[k], "outputs", <<>>) ELSE @[k]]],
           "Cleared all outputs", 0)

clearAllOutputs(notebook) ==
  Returned([notebook EXCEPT !.cells =
              [k \in DOMAIN @ |->
                 IF @[k].cell_type = "code"
                 THEN SetField(SetField(@[k], "outputs", <<>>), "execution_count", "null")
                 ELSE @[k]]],
           "Cleared all outputs", 0)


\* mutant of moveCell: the insertion overwrites the cell at toIndex
moveCell_Overwrites(notebook, fromIndex, toIndex) ==
  IF OutOfBounds(notebook, fromIndex) \/ OutOfBounds(notebook, toIndex)
  THEN Thrown(notebook, "Cell index out of bounds", fromIndex)
  ELSE LET cell == notebook.cells[fromIndex + 1]
           removed == splice(notebook.cells, fromIndex, 1, <<>>)
       IN  Returned([notebook EXCEPT !.cells = splice(removed, toIndex, 1, <<cell>>)],
                    "Moved cell", fromIndex)

\* mutant of moveCell: the cell at fromIndex and the cell at toIndex change places
moveCell_Swaps(notebook, fromIndex, toIndex) ==
  IF OutOfBounds(notebook, fromIndex) \/ OutOfBounds(notebook, toIndex)
  THEN Thrown(notebook, "Cell index out of bounds", fromIndex)
  ELSE Returned([notebook EXCEPT !.cells[fromIndex + 1] = notebook.cells[toIndex + 1],
                                 !.cells[toIndex + 1] = notebook.cells[fromIndex + 1]],
                "Moved cell", fromIndex)

\* mutant of moveCell: toIndex names a cell of the sequence as it was before
\* the removal, and the moved cell goes in front of that cell
moveCell_InsertsBeforeTarget(notebook, fromIndex, toIndex) ==
  IF OutOfBounds(notebook, fromIndex) \/ OutOfBounds(notebook, toIndex)
  THEN Thrown(notebook, "Cell index out of bounds", fromIndex)
  ELSE LET cell == notebook.cells[fromIndex + 1]
           removed == splice(notebook.cells, fromIndex, 1, <<>>)
           target == IF fromIndex < toIndex THEN toIndex - 1 ELSE toIndex
       IN  Returned([notebook EXCEPT !.cells = splice(removed, target, 0, <<cell>>)],
                    "Moved cell", fromIndex)

moveCell(notebook, fromIndex, toIndex) ==
  IF OutOfBounds(notebook, fromIndex) \/ OutOfBounds(notebook, toIndex)
  THEN Thrown(notebook, "Cell index out of bounds", fromIndex)
  ELSE LET cell == notebook.cells[fromIndex + 1]
           removed == splice(notebook.cells, fromIndex, 1, <<>>)
       IN  Returned([notebook EXCEPT !.cells = splice(removed, toIndex, 0, <<cell>>)],
                    "Moved cell", fromIndex)


\* mutant of splitCell: the line at lineNumber stays in the first part
splitCell_OffByOne(notebook, cellIndex, lineNumber) ==
  IF OutOfBounds(notebook, cellIndex)
  THEN Thrown(notebook, "Cell index out of bounds", cellIndex)
  ELSE LET cell == notebook.cells[cellIndex + 1]
           source == normalizeSource(cell.source)
           lines == split(source, NL)
       IN  IF lineNumber >= Len(lines) \/ lineNumber < 0
           THEN Thrown(notebook, "Line number out of bounds", lineNumber)
           ELSE LET firstPart == join(slice(lines, 0, lineNumber + 1), <<NL>>)
                    secondPart == join(slice(lines, lineNumber + 1, Len(lines)), <<NL>>)
                    shortened == SetField(cell, "source", Str(firstPart))
                    newCell == NewCell(cell.cell_type, secondPart)
                IN  Returned([notebook EXCEPT !.cells =
                                splice(SetCell(notebook, cellIndex, shortened).cells,
                                       cellIndex + 1, 0, <<newCell>>)],
                             "Split cell", cellIndex)

\* mutant of splitCell: the new cell takes over the metadata and the outputs
\* of the cell that is split
splitCell_CopiesCell(notebook, cellIndex, lineNumber) ==
  IF OutOfBounds(notebook, cellIndex)
  THEN Thrown(notebook, "Cell index out of bounds", cellIndex)
  ELSE LET cell == notebook.cells[cellIndex + 1]
           source == normalizeSource(cell.source)
           lines == split(source, NL)
       IN  IF lineNumber >= Len(lines) \/ lineNumber < 0
           THEN Thrown(notebook, "Line number out of bounds", lineNumber)
           ELSE LET firstPart == join(slice(lines, 0, lineNumber), <<NL>>)
                    secondPart == join(slice(lines, lineNumber, Len(lines)), <<NL>>)
                    shortened == SetField(cell, "source", Str(firstPart))
                    newCell == SetField(cell, "source", Str(secondPart))
                IN  Returned([notebook EXCEPT !.cells =
                                splice(SetCell(notebook, cellIndex, shortened).cells,
                                       cellIndex + 1, 0, <<newCell>>)],
                             "Split cell", cellIndex)

splitCell(notebook, cellIndex, lineNumber) ==
  IF OutOfBounds(notebook, cellIndex)
  THEN Thrown(notebook, "Cell index out of bounds", cellIndex)
  ELSE LET cell == notebook.cells[cellIndex + 1]
           source == normalizeSource(cell.source)
           lines == split(source, NL)
       IN  IF lineNumber >= Len(lines) \/ lineNumber < 0
           THEN Thrown(notebook, "Line number out of bounds", lineNumber)
           ELSE LET firstPart == join(slice(lines, 0, lineNumber), <<NL>>)
                    secondPart == join(slice(lines, lineNumber, Len(lines)), <<NL>>)
                    shortened == SetField(cell, "source", Str(firstPart))
                    newCell == NewCell(cell.cell_type, secondPart)
                IN  Returned([notebook EXCEPT !.cells =
                                splice(SetCell(notebook, cellIndex, shortened).cells,
                                       cellIndex + 1, 0, <<newCell>>)],
                             "Split cell", cellIndex)


\* mutant of mergeCells: the merged cell is built on the next cell, not the current one
mergeCells_KeepsNext(notebook, cellIndex) ==
  IF cellIndex >= Len(notebook.cells) - 1 \/ cellIndex < 0
  THEN Thrown(notebook, "Cannot merge: cell index out of bounds or no next cell", cellIndex)
  ELSE LET currentCell == notebook.cells[cellIndex + 1]
           nextCell == notebook.cells[cellIndex + 2]
           currentSource == normalizeSource(currentCell.source)
           nextSource == normalizeSource(nextCell.source)
           merged == SetField(nextCell, "source", Str(currentSource \o <<NL>> \o nextSource))
       IN  Returned([notebook EXCEPT !.cells =
                       splice(SetCell(notebook, cellIndex, merged).cells, cellIndex + 1, 1, <<>>)],
                    "Merged cell", cellIndex)

\* mutant of mergeCells: the two sources are joined with nothing between them
mergeCells_NoNewline(notebook, cellIndex) ==
  IF cellIndex >= Len(notebook.cells) - 1 \/ cellIndex < 0
  THEN Thrown(notebook, "Cannot merge: cell index out of bounds or no next cell", cellIndex)
  ELSE LET currentCell == notebook.cells[cellIndex + 1]
           nextCell == notebook.cells[cellIndex + 2]
           currentSource == normalizeSource(currentCell.source)
           nextSource == normalizeSource(nextCell.source)
           merged == SetField(currentCell, "source", Str(currentSource \o nextSource))
       IN  Returned([notebook EXCEPT !.cells =
                       splice(SetCell(notebook, cellIndex, merged).cells, cellIndex + 1, 1, <<>>)],
                    "Merged cell", cellIndex)

mergeCells(notebook, cellIndex) ==
  IF cellIndex >= Len(notebook.cells) - 1 \/ cellIndex < 0
  THEN Thrown(notebook, "Cannot merge: cell index out of bounds or no next cell", cellIndex)
  ELSE LET currentCell == notebook.cells[cellIndex + 1]
           nextCell == notebook.cells[cellIndex + 2]
           currentSource == normalizeSource(currentCell.source)
           nextSource == normalizeSource(nextCell.source)
           merged == SetField(currentCell, "source", Str(currentSource \o <<NL>> \o nextSource))
       IN  Returned([notebook EXCEPT !.cells =
                       splice(SetCell(notebook, cellIndex, merged).cells, cellIndex + 1, 1, <<>>)],
                    "Merged cell", cellIndex)

\* mutant of editCellOutput: the outputs given are added to the outputs of the cell
editCellOutput_Appends(notebook, cellIndex, outputs) ==
  IF OutOfBounds(notebook, cellIndex)
  THEN Thrown(notebook, "Cell index out of bounds", cellIndex)
  ELSE LET cell == notebook.cells[cellIndex + 1]
       IN  IF cell.cell_type # "code"
           THEN Thrown(notebook, "Cell is not a code cell", cellIndex)
           ELSE Returned(SetCell(notebook, cellIndex,
                                 SetField(cell, "outputs", cell.outputs \o outputs)),
                         "Updated outputs for cell", cellIndex)

editCellOutput(notebook, cellIndex, outputs) ==
  IF OutOfBounds(notebook, cellIndex)
  THEN Thrown(notebook, "Cell index out of bounds", cellIndex)
  ELSE LET cell == notebook.cells[cellIndex + 1]
       IN  IF cell.cell_type # "code"
           THEN Thrown(notebook, "Cell is not a code cell", cellIndex)
           ELSE Returned(SetCell(notebook, cellIndex, SetField(cell, "outputs", outputs)),
                         "Updated outputs for cell", cellIndex)

\* mutant of bulkAddCells: the new cells are inserted one by one at the same
\* place, so that the block ends in reverse order
bulkAddCells_Reversed(notebook, cells, index) ==
  LET newCells == [k \in DOMAIN cells |->
                     NewCell(cells[Len(cells) + 1 - k].cell_type, cells[Len(cells) + 1 - k].source)]
  IN  Returned([notebook EXCEPT !.cells = splice(@, index + 1, 0, newCells)],
               "Added cells at index", index + 1)

\* mutant of bulkAddCells: no new cell is given execution_count and outputs
bulkAddCells_NoExecutionState(notebook, cells, index) ==
  LET newCells == [k \in DOMAIN cells |->
                     [cell_type |-> cells[k].cell_type, metadata |-> EmptyObject,
                      source |-> Str(cells[k].source)]]
  IN  Returned([notebook EXCEPT !.cells = splice(@, index + 1, 0, newCells)],
               "Added cells at index", index + 1)

bulkAddCells(notebook, cells, index) ==
  LET newCells == [k \in DOMAIN cells |-> NewCell(cells[k].cell_type, cells[k].source)]
  IN  Returned([notebook EXCEPT !.cells = splice(@, index + 1, 0, newCells)],
               "Added cells at index", index + 1)

getCellCount(notebook) == Answered(notebook, "cells", Len(notebook.cells))

\* JSON values of a kind the handlers do not expect, in a file another
\* program wrote: a cell that is null, and a cells field that holds an
\* object, not an array.
JsonNull == [json |-> "null"]
NotAnArray == <<[json |-> "object"]>>

\* Array.isArray(notebook.cells)
isArray(cells) == cells # NotAnArray

requiredFields == {"cells", "metadata", "nbformat", "nbformat_minor"}

\* !cell.cell_type || !['code', 'markdown', 'raw'].includes(cell.cell_type)
InvalidCellType(cell) ==
  "cell_type" \notin DOMAIN cell \/ cell.cell_type \notin {"code", "markdown", "raw"}

\* mutant of validateNotebook: the cells are not looked at
validateNotebook_SkipsCells(notebook) ==
  IF requiredFields \ DOMAIN notebook # {}
  THEN Thrown(notebook, "Validation failed: Missing required fields", 0)
  ELSE IF ~isArray(notebook.cells)
  THEN Thrown(notebook, "Validation failed: 'cells' must be an array", 0)
  ELSE Answered(notebook, "Notebook validation passed", 0)

\* validateNotebook, from the notebook it has read: the loop throws at the
\* first cell it refuses
validateNotebook(notebook) ==
  IF requiredFields \ DOMAIN notebook # {}
  THEN Thrown(notebook, "Validation failed: Missing required fields", 0)
  ELSE IF ~isArray(notebook.cells)
  THEN Thrown(notebook, "Validation failed: 'cells' must be an array", 0)
  ELSE LET cells == notebook.cells
           refused == {i \in 0..(Len(cells) - 1) :
                         \/ cells[i + 1] = JsonNull
                         \/ InvalidCellType(cells[i + 1])
                         \/ "source" \notin DOMAIN cells[i + 1]}
       IN  IF refused = {} THEN Answered(notebook, "Notebook validation passed", 0)
           ELSE LET i == CHOOSE j \in refused : \A k \in refused : j <= k
                    cell == cells[i + 1]
                IN  IF cell = JsonNull
                    THEN Thrown(notebook, "Validation failed: Cannot read properties of null", i)
                    ELSE IF InvalidCellType(cell)
                    THEN Thrown(notebook, "Validation failed: Invalid cell_type at index", i)
                    ELSE Thrown(notebook, "Validation failed: Missing 'source' in cell at index", i)

\* notebook.metadata[field]?.name || 'unknown'
NameOrUnknown(metadata, field) ==
  IF field \in DOMAIN metadata /\ "name" \in DOMAIN metadata[field] /\ metadata[field].name # ""
  THEN metadata[field].name
  ELSE "unknown"

\* mutant of getNotebookInfo: the raw cells are left out of cell_count
getNotebookInfo_LeavesOutRaw(notebook) ==
  LET count(type) == Cardinality({k \in DOMAIN notebook.cells : notebook.cells[k].cell_type = type})
  IN  Answered(notebook, "info",
               [cell_count |-> count("code") + count("markdown"),
                code_cells |-> count("code"),
                markdown_cells |-> count("markdown"),
                raw_cells |-> count("raw"),
                nbformat |-> notebook.nbformat,
                nbformat_minor |-> notebook.nbformat_minor,
                kernel |-> NameOrUnknown(notebook.metadata, "kernelspec"),
                language |-> NameOrUnknown(notebook.metadata, "language_info")])

getNotebookInfo(notebook) ==
  LET count(type) == Cardinality({k \in DOMAIN notebook.cells : notebook.cells[k].cell_type = type})
  IN  Answered(notebook, "info",
               [cell_count |-> Len(notebook.cells),
                code_cells |-> count("code"),
                markdown_cells |-> count("markdown"),
                raw_cells |-> count("raw"),
                nbformat |-> notebook.nbformat,
                nbformat_minor |-> notebook.nbformat_minor,
                kernel |-> NameOrUnknown(notebook.metadata, "kernelspec"),
                language |-> NameOrUnknown(notebook.metadata, "language_info")])

----------------------------------------------------------------------------
(* The queries on one cell *)

\* JSON.stringify(notebook, null, 2): the text that holds the whole notebook
readNotebook(notebook) == Answered(notebook, "notebook", notebook)

\* JSON.stringify(notebook.metadata, null, 2)
readMetadata(notebook) == Answered(notebook, "metadata", notebook.metadata)

\* mutant of readCell: the joined source is stored back in the cell
readCell_StoresJoinedSource(notebook, cellIndex) ==
  IF OutOfBounds(notebook, cellIndex)
  THEN Thrown(notebook, "Cell index out of bounds", cellIndex)
  ELSE LET cell == notebook.cells[cellIndex + 1]
           source == normalizeSource(cell.source)
       IN  Returned(SetCell(notebook, cellIndex, SetField(cell, "source", Str(source))),
                    "source", source)

\* mutant of readCell: the fragments are joined with newlines
readCell_JoinsWithNewline(notebook, cellIndex) ==
  IF OutOfBounds(notebook, cellIndex)
  THEN Thrown(notebook, "Cell index out of bounds", cellIndex)
  ELSE LET cell == notebook.cells[cellIndex + 1]
       IN  Answered(notebook, "source",
                    IF cell.source.isArray THEN join(cell.source.parts, <<NL>>)
                    ELSE cell.source.parts[1])

readCell(notebook, cellIndex) ==
  IF OutOfBounds(notebook, cellIndex)
  THEN Thrown(notebook, "Cell index out of bounds", cellIndex)
  ELSE LET cell == notebook.cells[cellIndex + 1]
       IN  Answered(notebook, "source",
                    IF cell.source.isArray THEN join(cell.source.parts, <<>>)
                    ELSE cell.source.parts[1])

\* mutant of readCellMetadata: the index one past the end is let through
readCellMetadata_NoUpperBound(notebook, cellIndex) ==
  IF cellIndex < 0 \/ cellIndex > Len(notebook.cells)
  THEN Thrown(notebook, "Cell index out of bounds", cellIndex)
  ELSE IF cellIndex < Len(notebook.cells) /\ "metadata" \in DOMAIN notebook.cells[cellIndex + 1]
  THEN Answered(notebook, "metadata", notebook.cells[cellIndex + 1].metadata)
  ELSE Answered(notebook, "metadata", EmptyObject)

\* notebook.cells[cellIndex].metadata || {}
readCellMetadata(notebook, cellIndex) ==
  IF OutOfBounds(notebook, cellIndex)
  THEN Thrown(notebook, "Cell index out of bounds", cellIndex)
  ELSE LET cell == notebook.cells[cellIndex + 1]
       IN  Answered(notebook, "metadata",
                    IF "metadata" \in DOMAIN cell THEN cell.metadata ELSE EmptyObject)

\* cell.outputs || []
readCellOutput(notebook, cellIndex) ==
  IF OutOfBounds(notebook, cellIndex)
  THEN Thrown(notebook, "Cell index out of bounds", cellIndex)
  ELSE LET cell == notebook.cells[cellIndex + 1]
       IN  Answered(notebook, "outputs",
                    IF "outputs" \in DOMAIN cell THEN cell.outputs ELSE <<>>)

----------------------------------------------------------------------------
(* Text: the string methods and the regular expressions of getOutline and   *)
(* searchNotebook                                                           *)

UpperCase == <<"A", "B", "C", "D", "E", "F", "G", "H", "I", "J", "K", "L", "M",
               "N", "O", "P", "Q", "R", "S", "T", "U", "V", "W", "X", "Y", "Z">>
LowerCase == <<"a", "b", "c", "d", "e", "f", "g", "h", "i", "j", "k", "l", "m",
               "n", "o", "p", "q", "r", "s", "t", "u", "v", "w", "x", "y", "z">>

\* str.toLowerCase()
toLowerCase(str) ==
  [k \in 1..Len(str) |->
     IF \E i \in 1..26 : UpperCase[i] = str[k]
     THEN LowerCase[CHOOSE i \in 1..26 : UpperCase[i] = str[k]]
     ELSE str[k]]

\* str.includes(searchString)
includes(str, searchString) ==
  \E k \in 0..(Len(str) - Len(searchString)) :
     \A j \in 1..Len(searchString) : str[k + j] = searchString[j]

\* the classes \s and \w, the dot, and the places where ^ matches under the m flag
IsSpace(c) == c \in {" ", "\t", "\r", NL}
IsWord(c) == (\E i \in 1..26 : c = UpperCase[i] \/ c = LowerCase[i]) \/ c \in {"0", "1", "2", "3", "4", "5", "6", "7", "8", "9", "_"}
IsDot(c) == c \notin {NL, "\r"}
InClass(c, class) ==
  CASE class = "\\s" -> IsSpace(c)
    [] class = "\\w" -> IsWord(c)
    [] class = "#" -> c = "#"
    [] class = "." -> IsDot(c)
LineStarts(str) == {p \in 1..(Len(str) + 1) : p = 1 \/ ~IsDot(str[p - 1])}

\* str.trim()
RECURSIVE trimStart(_)
trimStart(str) == IF str # <<>> /\ IsSpace(Head(str)) THEN trimStart(Tail(str)) ELSE str
RECURSIVE trimEnd(_)
trimEnd(str) ==
  IF str # <<>> /\ IsSpace(str[Len(str)]) THEN trimEnd(SubSeq(str, 1, Len(str) - 1)) ELSE str
trim(str) == trimEnd(trimStart(str))

\* The longest run of characters of a class from position from on: the
\* position of its last character, from - 1 when the run is empty.
RunEnd(str, from, class) ==
  CHOOSE e \in (from - 1)..Len(str) :
    /\ \A k \in from..e : InClass(str[k], class)
    /\ e = Len(str) \/ ~InClass(str[e + 1], class)

\* \s+ from position s on, followed by a character of the class next: the end
\* of the longest run of white space that leaves such a character after it,
\* s - 1 when there is none
SpaceEnd(str, s, next) ==
  LET ends == {j \in s..RunEnd(str, s, "\\s") : j + 1 <= Len(str) /\ InClass(str[j + 1], next)}
  IN  IF ends = {} THEN s - 1 ELSE CHOOSE j \in ends : \A i \in ends : i <= j

\* where the keyword that starts at p ends, p - 1 when it does not start there
KeywordEnd(str, p, keyword) ==
  IF p + Len(keyword) - 1 <= Len(str) /\ SubSeq(str, p, p + Len(keyword) - 1) = keyword
  THEN p + Len(keyword) - 1
  ELSE p - 1

\* the rest of a pattern, \s+ and a group of characters of a class, after the
\* position k where its start has matched: <<the group>>, <<>> for no match
GroupAfter(str, k, j, class) ==
  IF j > k THEN <<SubSeq(str, j + 1, RunEnd(str, j + 1, class))>> ELSE <<>>

\* a pattern anchored at p, whose start ends at k (k < p when it does not match)
MatchAt(str, p, k, class) ==
  IF k < p THEN <<>> ELSE GroupAfter(str, k, SpaceEnd(str, k + 1, class), class)

\* str.match(...) without the g flag: the leftmost of the matches, <<>> for null
Leftmost(matchAt) ==
  LET starts == {p \in DOMAIN matchAt : matchAt[p] # <<>>}
  IN  IF starts = {} THEN <<>> ELSE matchAt[CHOOSE p \in starts : \A q \in starts : p <= q]

\* source.match(/^keyword\s+(\w+)/m): <<the group>>, <<>> for null
matchDefinition(source, keyword) ==
  Leftmost([p \in LineStarts(source) |-> MatchAt(source, p, KeywordEnd(source, p, keyword), "\\w")])

\* source.match(/^#+\s+(.+)/m): \s+ gives back white space until the dot has a
\* character to match, and the group runs to the end of that line
matchHeader(source) ==
  Leftmost([p \in LineStarts(source) |-> MatchAt(source, p, RunEnd(source, p, "#"), ".")])

----------------------------------------------------------------------------
(* The queries on the whole notebook.  The response of getOutline is the    *)
(* sequence of its lines, each the record of what the line is made of: the  *)
(* index, the type, the title (<<>> when the line has none) and the line    *)
(* count.  The response of searchNotebook is the array it serializes.       *)

\* the title of a cell of a type, from the matches of the three patterns
outlineTitle(cellType, headerMatch, defMatch, classMatch) ==
  IF cellType = "markdown"
  THEN (IF headerMatch # <<>> THEN <<[kind |-> "header", name |-> headerMatch[1]]>> ELSE <<>>)
  ELSE IF cellType = "code"
  THEN (IF defMatch # <<>> THEN <<[kind |-> "def", name |-> defMatch[1]]>>
        ELSE IF classMatch # <<>> THEN <<[kind |-> "class", name |-> classMatch[1]]>>
        ELSE <<>>)
  ELSE <<>>

\* notebook.cells.map((cell, index) => ...) on one cell
outlineEntry(cell, index, source) ==
  [index |-> index,
   cell_type |-> cell.cell_type,
   title |-> outlineTitle(cell.cell_type, matchHeader(source),
                          matchDefinition(source, <<"d", "e", "f">>),
                          matchDefinition(source, <<"c", "l", "a", "s", "s">>)),
   lineCount |-> Len(split(source, NL))]

getOutline(notebook) ==
  Answered(notebook, "outline",
           [k \in 1..Len(notebook.cells) |->
              outlineEntry(notebook.cells[k], k - 1, normalizeSource(notebook.cells[k].source))])

\* caseSensitive ? str : str.toLowerCase()
foldCase(str, caseSensitive) == IF caseSensitive THEN str ELSE toLowerCase(str)

\* mutant of matchingLines: the lines are numbered from 0
matchingLines_NumbersFromZero(lines, searchQuery, caseSensitive) ==
  LET matches[n \in 0..Len(lines)] ==
        IF n = 0 THEN <<>>
        ELSE IF includes(foldCase(lines[n], caseSensitive), searchQuery)
        THEN Append(matches[n - 1], [line_number |-> n - 1, content |-> trim(lines[n])])
        ELSE matches[n - 1]
  IN  matches[Len(lines)]

\* mutant of matchingLines: the lines are compared as they are written
matchingLines_NotFolded(lines, searchQuery, caseSensitive) ==
  LET matches[n \in 0..Len(lines)] ==
        IF n = 0 THEN <<>>
        ELSE IF includes(lines[n], searchQuery)
        THEN Append(matches[n - 1], [line_number |-> (n - 1) + 1, content |-> trim(lines[n])])
        ELSE matches[n - 1]
  IN  matches[Len(lines)]

\* lines.map(...).filter(...), then matchingLines.map(...): the lines that
\* include the query, each with lineIndex + 1 and line.trim()
matchingLines(lines, searchQuery, caseSensitive) ==
  LET matches[n \in 0..Len(lines)] ==
        IF n = 0 THEN <<>>
        ELSE IF includes(foldCase(lines[n], caseSensitive), searchQuery)
        THEN Append(matches[n - 1], [line_number |-> (n - 1) + 1, content |-> trim(lines[n])])
        ELSE matches[n - 1]
  IN  matches[Len(lines)]

\* notebook.cells.forEach: results.push for the cells whose source includes the query
searchNotebook(notebook, query, caseSensitive) ==
  LET results[n \in 0..Len(notebook.cells)] ==
        IF n = 0 THEN <<>>
        ELSE IF includes(foldCase(normalizeSource(notebook.cells[n].source), caseSensitive),
                         foldCase(query, caseSensitive))
        THEN Append(results[n - 1],
                    [cell_index |-> n - 1,
                     cell_type |-> notebook.cells[n].cell_type,
                     matches |-> matchingLines(split(normalizeSource(notebook.cells[n].source), NL),
                                               foldCase(query, caseSensitive), caseSensitive)])
        ELSE results[n - 1]
  IN  Answered(notebook, "results", results[Len(notebook.cells)])

----------------------------------------------------------------------------
(* The dispatcher: the CallToolRequestSchema handler *)

\* fs.writeJson(path, notebook)
writeJson(fs, path, notebook) == SetField(fs, path, notebook)

\* mutant of createNotebook: a file that exists is left as it is
createNotebook_KeepsExisting(fs, notebookPath) ==
  [isError |-> FALSE, text |-> <<"Created new notebook", 0>>,
   files |-> IF notebookPath \in DOMAIN fs THEN fs ELSE writeJson(fs, notebookPath, createEmptyNotebook)]

createNotebook(fs, notebookPath) ==
  [isError |-> FALSE, text |-> <<"Created new notebook", 0>>,
   files |-> writeJson(fs, notebookPath, createEmptyNotebook)]

\* mutant of renameNotebook: the notebook is copied, the old file stays
renameNotebook_Copies(fs, oldPath, newPath) ==
  IF oldPath \notin DOMAIN fs
  THEN [isError |-> TRUE, text |-> <<"ENOENT: no such file", 0>>, files |-> fs]
  ELSE IF oldPath = newPath
  THEN [isError |-> TRUE, text |-> <<"Source and destination must not be the same.", 0>>, files |-> fs]
  ELSE IF newPath \in DOMAIN fs
  THEN [isError |-> TRUE, text |-> <<"dest already exists.", 0>>, files |-> fs]
  ELSE [isError |-> FALSE, text |-> <<"Renamed notebook", 0>>,
        files |-> SetField(fs, newPath, fs[oldPath])]

\* fs.move(oldPath, newPath) without the overwrite option: it throws when the
\* source is missing, when both paths name the same file and when the
\* destination exists
renameNotebook(fs, oldPath, newPath) ==
  IF oldPath \notin DOMAIN fs
  THEN [isError |-> TRUE, text |-> <<"ENOENT: no such file", 0>>, files |-> fs]
  ELSE IF oldPath = newPath
  THEN [isError |-> TRUE, text |-> <<"Source and destination must not be the same.", 0>>, files |-> fs]
  ELSE IF newPath \in DOMAIN fs
  THEN [isError |-> TRUE, text |-> <<"dest already exists.", 0>>, files |-> fs]
  ELSE [isError |-> FALSE, text |-> <<"Renamed notebook", 0>>,
        files |-> SetField(DelField(fs, oldPath), newPath, fs[oldPath])]

\* the stub: it reads nothing, writes nothing and returns its notice
exportNotebook(fs, notebookPath, format, outputPath) ==
  [isError |-> FALSE, text |-> <<"Export functionality requires nbconvert", 0>>, files |-> fs]

\* the tools that read the notebook at args.path; all but the queries change
\* it and write it back
CellTools ==
  {"notebook_add_cell", "notebook_edit_cell", "notebook_delete_cell",
   "notebook_change_cell_type", "notebook_duplicate_cell", "notebook_edit_cell_metadata",
   "notebook_clear_cell_outputs", "notebook_clear_all_outputs", "notebook_move_cell",
   "notebook_split_cell", "notebook_merge_cells", "notebook_edit_cell_output",
   "notebook_bulk_add_cells", "notebook_edit_metadata",
   "notebook_get_cell_count", "notebook_validate", "notebook_get_info",
   "notebook_read_cell_metadata", "notebook_read_cell_output",
   "notebook_get_outline", "notebook_search",
   "notebook_read", "notebook_read_cell", "notebook_read_metadata"}

\* args.count || 1, where count is <<>> when the caller omits it and <<n>> otherwise
CountOrOne(count) == IF count = <<>> \/ count[1] = 0 THEN 1 ELSE count[1]

\* caseSensitive = false, where case_sensitive is <<>> when the caller omits it and <<b>> otherwise
FalseByDefault(flag) == IF flag = <<>> THEN FALSE ELSE flag[1]

\* the switch: the handler of a tool, run on the notebook it has read
Handler(name, args, notebook) ==
  CASE name = "notebook_add_cell" -> addCell(notebook, args.cell_type, args.source, args.index)
    [] name = "notebook_edit_cell" -> editCell(notebook, args.cell_index, args.new_source)
    [] name = "notebook_delete_cell" -> deleteCell(notebook, args.cell_index)
    [] name = "notebook_change_cell_type" -> changeCellType(notebook, args.cell_index, args.new_type)
    [] name = "notebook_duplicate_cell" -> duplicateCell(notebook, args.cell_index, CountOrOne(args.count))
    [] name = "notebook_edit_cell_metadata" -> editCellMetadata(notebook, args.cell_index, args.metadata)
    [] name = "notebook_clear_cell_outputs" -> clearCellOutputs(notebook, args.cell_index)
    [] name = "notebook_clear_all_outputs" -> clearAllOutputs(notebook)
    [] name = "notebook_move_cell" -> moveCell(notebook, args.from_index, args.to_index)
    [] name = "notebook_split_cell" -> splitCell(notebook, args.cell_index, args.line_number)
    [] name = "notebook_merge_cells" -> mergeCells(notebook, args.cell_index)
    [] name = "notebook_edit_cell_output" -> editCellOutput(notebook, args.cell_index, args.outputs)
    [] name = "notebook_bulk_add_cells" -> bulkAddCells(notebook, args.cells, args.index)
    [] name = "notebook_edit_metadata" -> editMetadata(notebook, args.metadata)
    [] name = "notebook_get_cell_count" -> getCellCount(notebook)
    [] name = "notebook_validate" -> validateNotebook(notebook)
    [] name = "notebook_get_info" -> getNotebookInfo(notebook)
    [] name = "notebook_read_cell_metadata" -> readCellMetadata(notebook, args.cell_index)
    [] name = "notebook_read_cell_output" -> readCellOutput(notebook, args.cell_index)
    [] name = "notebook_get_outline" -> getOutline(notebook)
    [] name = "notebook_search" -> searchNotebook(notebook, args.query, FalseByDefault(args.case_sensitive))
    [] name = "notebook_read" -> readNotebook(notebook)
    [] name = "notebook_read_cell" -> readCell(notebook, args.cell_index)
    [] name = "notebook_read_metadata" -> readMetadata(notebook)

\* What the dispatcher makes of what a handler returns or throws: the
\* response, and the file system after the handler's fs.writeJson, if it got there.
Handled(fs, path, r) ==
  [isError |-> r.isError, text |-> r.text,
   files |-> IF r.writes THEN writeJson(fs, path, r.notebook) ELSE fs]

\* One tool call served from start to end on the file system fs: the response
\* and the file system it leaves.
CallToolRequest(fs, request) ==
  LET name == request.name
      args == request.arguments
  IN  IF name = "notebook_create" THEN createNotebook(fs, args.path)
      ELSE IF name = "notebook_rename" THEN renameNotebook(fs, args.old_path, args.new_path)
      ELSE IF name = "notebook_export"
      THEN exportNotebook(fs, args.path, args.format, args.output_path)
      ELSE IF name \notin CellTools
      THEN [isError |-> TRUE, text |-> <<"Unknown tool", 0>>, files |-> fs]
      ELSE IF args.path \notin DOMAIN fs
      THEN [isError |-> TRUE,
            text |-> IF name = "notebook_validate" THEN <<"Validation failed: ENOENT: no such file", 0>>
                     ELSE <<"ENOENT: no such file", 0>>,
            files |-> fs]
      ELSE Handled(fs, args.path, Handler(name, args, fs[args.path]))

----------------------------------------------------------------------------
(* The environment: the callers' arguments *)

Paths == {"nb.ipynb"}
CellTypes == {"code", "markdown", "raw"}
Sources == {<<"a">>, <<"a", NL, "b">>}
Indexes == -2 .. 3
CellIndexes == -1 .. 3
LineNumbers == -1 .. 2
Counts == {<<>>, <<0>>, <<2>>}
Metadatas == {[k |-> "1"], [k |-> "2", j |-> "1"]}
OutputLists == {<<>>, <<"o1">>}
CellLists == {<<>>, <<[cell_type |-> "markdown", source |-> <<"b">>], [cell_type |-> "code", source |-> <<>>]>>}

\* Notebooks written by another program (Jupyter itself): the source is an
\* array of line fragments, and the code cell has been executed.
ExternalNotebooks ==
  { [ cells |-> << [cell_type |-> "code", metadata |-> EmptyObject,
                    source |-> Arr(<< <<"a", NL>>, <<"b">> >>),
                    execution_count |-> "1", outputs |-> <<>>] >>,
      metadata |-> createEmptyNotebook.metadata, nbformat |-> 4, nbformat_minor |-> 5 ],
    [ cells |-> << [cell_type |-> "code", metadata |-> EmptyObject,
                    source |-> Arr(<<>>),
                    execution_count |-> "2", outputs |-> <<"o1">>] >>,
      metadata |-> createEmptyNotebook.metadata, nbformat |-> 4, nbformat_minor |-> 5 ] }

----------------------------------------------------------------------------
(* State and actions *)

NoCall ==
  [request |-> [name |-> "(none)", arguments |-> EmptyObject],
   isError |-> FALSE, text |-> <<"", 0>>, before |-> EmptyObject]

Clients == {1, 2}
Idle == [state |-> "idle"]

Init ==
  /\ files = EmptyObject
  /\ created = {}
  /\ last = NoCall
  /\ prev = NoCall
  /\ calls = [c \in Clients |-> Idle]

\* No call is in flight and no response is pending: the caller awaits each
\* response before it sends the next request, as runTest does.
Quiet ==
  /\ last = NoCall
  /\ \A c \in Clients : calls[c] = Idle

\* The step of a tool call whose response is r.
Served(request, r) ==
  /\ \A p \in DOMAIN r.files : WithinBounds(r.files[p])
  /\ files' = r.files
  /\ created' = IF request.name = "notebook_create" THEN created \cup {request.arguments.path}
                ELSE IF request.name = "notebook_rename" /\ ~r.isError
                THEN IF request.arguments.old_path \in created
                     THEN (created \ {request.arguments.old_path}) \cup {request.arguments.new_path}
                     ELSE created
                ELSE created
  /\ last' = [request |-> request, isError |-> r.isError, text |-> r.text, before |-> files]
  /\ UNCHANGED <<prev, calls>>

\* A tool call served from start to end.
Serve(request) == Served(request, CallToolRequest(files, request))

\* Another program writes a notebook file.
ExternalWrite(p, notebook) ==
  /\ Quiet
  /\ WithinBounds(notebook)
  /\ files' = writeJson(files, p, notebook)
  /\ created' = created \ {p}
  /\ last' = [request |-> [name |-> "(external write)", arguments |-> [path |-> p]],
              isError |-> FALSE, text |-> <<"", 0>>, before |-> files]
  /\ UNCHANGED <<prev, calls>>

\* The callers receive the responses of the calls served.  A caller that
\* follows one call with another (pairs) keeps the first call in prev.
ReceiveResponse(pairs) ==
  /\ last # NoCall
  /\ \A c \in Clients : calls[c] = Idle
  /\ last' = NoCall
  /\ prev' = IF pairs THEN last ELSE NoCall
  /\ UNCHANGED <<files, created, calls>>

notebook_create(p) ==
  /\ Quiet
  /\ Serve([name |-> "notebook_create", arguments |-> [path |-> p]])

notebook_add_cell(p, t, s, i) ==
  /\ Quiet
  /\ Serve([name |-> "notebook_add_cell",
         arguments |-> [path |-> p, cell_type |-> t, source |-> s, index |-> i]])

notebook_edit_cell(p, i, s) ==
  /\ Quiet
  /\ Serve([name |-> "notebook_edit_cell",
         arguments |-> [path |-> p, cell_index |-> i, new_source |-> s]])

notebook_delete_cell(p, i) ==
  /\ Quiet
  /\ Serve([name |-> "notebook_delete_cell", arguments |-> [path |-> p, cell_index |-> i]])

notebook_change_cell_type(p, i, t) ==
  /\ Quiet
  /\ Serve([name |-> "notebook_change_cell_type",
         arguments |-> [path |-> p, cell_index |-> i, new_type |-> t]])

notebook_duplicate_cell(p, i, n) ==
  /\ Quiet
  /\ Serve([name |-> "notebook_duplicate_cell",
         arguments |-> [path |-> p, cell_index |-> i, count |-> n]])

notebook_edit_cell_metadata(p, i, m) ==
  /\ Quiet
  /\ Serve([name |-> "notebook_edit_cell_metadata",
         arguments |-> [path |-> p, cell_index |-> i, metadata |-> m]])

notebook_clear_cell_outputs(p, i) ==
  /\ Quiet
  /\ Serve([name |-> "notebook_clear_cell_outputs", arguments |-> [path |-> p, cell_index |-> i]])

notebook_clear_all_outputs(p) ==
  /\ Quiet
  /\ Serve([name |-> "notebook_clear_all_outputs", arguments |-> [path |-> p]])

notebook_move_cell(p, i, j) ==
  /\ Quiet
  /\ Serve([name |-> "notebook_move_cell",
         arguments |-> [path |-> p, from_index |-> i, to_index |-> j]])

notebook_split_cell(p, i, k) ==
  /\ Quiet
  /\ Serve([name |-> "notebook_split_cell",
         arguments |-> [path |-> p, cell_index |-> i, line_number |-> k]])

notebook_merge_cells(p, i) ==
  /\ Quiet
  /\ Serve([name |-> "notebook_merge_cells", arguments |-> [path |-> p, cell_index |-> i]])

notebook_edit_cell_output(p, i, o) ==
  /\ Quiet
  /\ Serve([name |-> "notebook_edit_cell_output",
         arguments |-> [path |-> p, cell_index |-> i, outputs |-> o]])

notebook_bulk_add_cells(p, cs, i) ==
  /\ Quiet
  /\ Serve([name |-> "notebook_bulk_add_cells",
         arguments |-> [path |-> p, cells |-> cs, index |-> i]])

notebook_edit_metadata(p, m) ==
  /\ Quiet
  /\ Serve([name |-> "notebook_edit_metadata", arguments |-> [path |-> p, metadata |-> m]])

notebook_get_cell_count(p) ==
  /\ Quiet
  /\ Serve([name |-> "notebook_get_cell_count", arguments |-> [path |-> p]])

notebook_validate(p) ==
  /\ Quiet
  /\ Serve([name |-> "notebook_validate", arguments |-> [path |-> p]])

notebook_get_info(p) ==
  /\ Quiet
  /\ Serve([name |-> "notebook_get_info", arguments |-> [path |-> p]])

Next ==
  \/ ReceiveResponse(FALSE)
  \/ \E p \in Paths : notebook_create(p)
  \/ \E p \in Paths, t \in CellTypes, s \in Sources, i \in Indexes : notebook_add_cell(p, t, s, i)
  \/ \E p \in Paths, i \in CellIndexes, s \in Sources : notebook_edit_cell(p, i, s)
  \/ \E p \in Paths, i \in CellIndexes : notebook_delete_cell(p, i)
  \/ \E p \in Paths, i \in CellIndexes, t \in CellTypes : notebook_change_cell_type(p, i, t)
  \/ \E p \in Paths, i \in CellIndexes, n \in Counts : notebook_duplicate_cell(p, i, n)
  \/ \E p \in Paths, i \in CellIndexes, m \in Metadatas : notebook_edit_cell_metadata(p, i, m)
  \/ \E p \in Paths, i \in CellIndexes : notebook_clear_cell_outputs(p, i)
  \/ \E p \in Paths : notebook_clear_all_outputs(p)
  \/ \E p \in Paths, i \in CellIndexes, j \in CellIndexes : notebook_move_cell(p, i, j)
  \/ \E p \in Paths, i \in CellIndexes, k \in LineNumbers : notebook_split_cell(p, i, k)
  \/ \E p \in Paths, i \in CellIndexes : notebook_merge_cells(p, i)
  \/ \E p \in Paths, i \in CellIndexes, o \in OutputLists : notebook_edit_cell_output(p, i, o)
  \/ \E p \in Paths, cs \in CellLists, i \in Indexes : notebook_bulk_add_cells(p, cs, i)
  \/ \E p \in Paths : notebook_get_cell_count(p)
  \/ \E p \in Paths : notebook_validate(p)
  \/ \E p \in Paths : notebook_get_info(p)

Spec == Init /\ [][Next]_vars

\* The same tools serving notebooks that another program has written, with
\* fewer arguments to choose from.
ExtCellTypes == {"markdown"}
ExtSources == {<<"b">>}
ExtIndexes == -1 .. 2
ExtLineNumbers == 0 .. 2
ExtCounts == {<<>>, <<2>>}
ExtMetadatas == {[k |-> "1"]}
ExtOutputLists == {<<>>}
ExtCellLists == {<<[cell_type |-> "markdown", source |-> <<>>]>>}

NextExt ==
  \/ ReceiveResponse(FALSE)
  \/ \E p \in Paths, nb \in ExternalNotebooks : ExternalWrite(p, nb)
  \/ \E p \in Paths, t \in ExtCellTypes, s \in ExtSources, i \in ExtIndexes : notebook_add_cell(p, t, s, i)
  \/ \E p \in Paths, i \in ExtIndexes, s \in ExtSources : notebook_edit_cell(p, i, s)
  \/ \E p \in Paths, i \in ExtIndexes : notebook_delete_cell(p, i)
  \/ \E p \in Paths, i \in ExtIndexes, t \in ExtCellTypes : notebook_change_cell_type(p, i, t)
  \/ \E p \in Paths, i \in ExtIndexes, n \in ExtCounts : notebook_duplicate_cell(p, i, n)
  \/ \E p \in Paths, i \in ExtIndexes, m \in ExtMetadatas : notebook_edit_cell_metadata(p, i, m)
  \/ \E p \in Paths, i \in ExtIndexes : notebook_clear_cell_outputs(p, i)
  \/ \E p \in Paths : notebook_clear_all_outputs(p)
  \/ \E p \in Paths, i \in ExtIndexes, j \in ExtIndexes : notebook_move_cell(p, i, j)
  \/ \E p \in Paths, i \in ExtIndexes, k \in ExtLineNumbers : notebook_split_cell(p, i, k)
  \/ \E p \in Paths, i \in ExtIndexes : notebook_merge_cells(p, i)
  \/ \E p \in Paths, i \in ExtIndexes, o \in ExtOutputLists : notebook_edit_cell_output(p, i, o)
  \/ \E p \in Paths, cs \in ExtCellLists, i \in ExtIndexes : notebook_bulk_add_cells(p, cs, i)

SpecExt == Init /\ [][NextExt]_vars

\* A caller that follows each call with the next one: prev is the call served
\* before the last one, on the notebook the last one found.
PairCellTypes == {"code", "markdown"}
PairIndexes == -1 .. 2

NextPairs ==
  \/ ReceiveResponse(TRUE)
  \/ \E p \in Paths : notebook_create(p)
  \/ \E p \in Paths, nb \in ExternalNotebooks : ExternalWrite(p, nb)
  \/ \E p \in Paths, t \in PairCellTypes, s \in Sources : notebook_add_cell(p, t, s, -1)
  \/ \E p \in Paths, i \in PairIndexes, k \in LineNumbers : notebook_split_cell(p, i, k)
  \/ \E p \in Paths, i \in PairIndexes : notebook_merge_cells(p, i)

SpecPairs == Init /\ [][NextPairs]_vars

\* A caller that follows each call with the next one, on the execution state of
\* the cells: the tools that set, reset or remove execution_count and outputs,
\* on notebooks another program has written.
OutCellTypes == {"code", "markdown"}
OutIndexes == -1 .. 2
OutOutputLists == {<<>>, <<"o2">>}

NextOutputs ==
  \/ ReceiveResponse(TRUE)
  \/ \E p \in Paths, nb \in ExternalNotebooks : ExternalWrite(p, nb)
  \/ \E p \in Paths, t \in OutCellTypes : notebook_add_cell(p, t, <<"b">>, -1)
  \/ \E p \in Paths, i \in OutIndexes, t \in CellTypes : notebook_change_cell_type(p, i, t)
  \/ \E p \in Paths, i \in OutIndexes, o \in OutOutputLists : notebook_edit_cell_output(p, i, o)
  \/ \E p \in Paths, i \in OutIndexes : notebook_clear_cell_outputs(p, i)
  \/ \E p \in Paths : notebook_clear_all_outputs(p)

SpecOutputs == Init /\ [][NextOutputs]_vars

\* The tools that edit the metadata of a cell and of the notebook.
MetaIndexes == -1 .. 2
DocMetadatas == {[k |-> "1"], [kernelspec |-> [name |-> "ir"], k |-> "2"]}

NextMeta ==
  \/ ReceiveResponse(FALSE)
  \/ \E p \in Paths : notebook_create(p)
  \/ \E p \in Paths : notebook_add_cell(p, "markdown", <<"a">>, -1)
  \/ \E p \in Paths, i \in MetaIndexes, m \in Metadatas : notebook_edit_cell_metadata(p, i, m)
  \/ \E p \in Paths, m \in DocMetadatas : notebook_edit_metadata(p, m)

SpecMeta == Init /\ [][NextMeta]_vars

\* validate, on files that another program has written: notebooks, and JSON
\* documents that are no notebooks.
MarkdownCell == [cell_type |-> "markdown", metadata |-> EmptyObject, source |-> Str(<<"a">>)]
OneCellNotebook ==
  [cells |-> <<MarkdownCell>>, metadata |-> createEmptyNotebook.metadata,
   nbformat |-> 4, nbformat_minor |-> 5]

OtherDocuments ==
  {DelField(OneCellNotebook, f) : f \in requiredFields}
  \cup {DelField(DelField(OneCellNotebook, "nbformat"), "nbformat_minor")}
  \cup {[OneCellNotebook EXCEPT !.cells = c] :
          c \in {NotAnArray,
                 <<>>,
                 <<JsonNull>>,
                 <<MarkdownCell, DelField(MarkdownCell, "cell_type")>>,
                 <<[MarkdownCell EXCEPT !.cell_type = "heading"]>>,
                 <<[MarkdownCell EXCEPT !.cell_type = ""]>>,
                 <<MarkdownCell, DelField(MarkdownCell, "source")>>,
                 <<DelField(DelField(MarkdownCell, "source"), "cell_type")>>,
                 <<MarkdownCell, DelField([MarkdownCell EXCEPT !.cell_type = "raw"], "metadata")>>}}

NextValidate ==
  \/ ReceiveResponse(FALSE)
  \/ \E p \in Paths, nb \in ExternalNotebooks \cup OtherDocuments : ExternalWrite(p, nb)
  \/ \E p \in Paths : notebook_validate(p)

SpecValidate == Init /\ [][NextValidate]_vars

\* Two callers whose calls are in flight at once.  Every handler is an async
\* function: it awaits fs.readJson, changes the notebook it has read, and
\* awaits fs.writeJson; the dispatcher starts the handler of each request as
\* the request arrives, so that the handler of one call runs between the two
\* awaits of another.
\* The handler of request starts for caller c and its fs.readJson resolves.
\* Both callers send their requests before either response comes back
\* (last = NoCall), to files that exist.
AwaitReadJson(c, request) ==
  /\ calls[c] = Idle
  /\ last = NoCall
  /\ request.arguments.path \in DOMAIN files
  /\ WithinBounds(Handler(request.name, request.arguments, files[request.arguments.path]).notebook)
  /\ calls' = [calls EXCEPT ![c] = [state |-> "loaded", request |-> request, before |-> files]]
  /\ UNCHANGED <<files, created, last, prev>>

\* The handler of caller c goes on from the notebook it has read: it changes
\* it, its fs.writeJson replaces the file as it is now, and it responds.
AwaitWriteJson(c) ==
  /\ calls[c] # Idle
  /\ LET request == calls[c].request
         path == request.arguments.path
         r == Handler(request.name, request.arguments, calls[c].before[path])
     IN  /\ files' = IF r.writes THEN writeJson(files, path, r.notebook) ELSE files
         /\ last' = [request |-> request, isError |-> r.isError, text |-> r.text,
                     before |-> calls[c].before]
  /\ prev' = last
  /\ calls' = [calls EXCEPT ![c] = Idle]
  /\ UNCHANGED created

ConcRequests ==
  {[name |-> "notebook_add_cell",
    arguments |-> [path |-> p, cell_type |-> "markdown", source |-> s, index |-> -1]] :
     p \in Paths, s \in {<<"a">>, <<"b">>}}
  \cup {[name |-> "notebook_delete_cell", arguments |-> [path |-> p, cell_index |-> 0]] : p \in Paths}
  \cup {[name |-> "notebook_edit_cell",
         arguments |-> [path |-> p, cell_index |-> 0, new_source |-> <<"b">>]] : p \in Paths}

NextConc ==
  \/ ReceiveResponse(FALSE)
  \/ \E p \in Paths : notebook_create(p)
  \/ \E c \in Clients, request \in ConcRequests : AwaitReadJson(c, request)
  \/ \E c \in Clients : AwaitWriteJson(c)

SpecConc == Init /\ [][NextConc]_vars

\* Notebook files created, overwritten, renamed and exported under two
\* paths, each call followed by the next.
FilePaths == {"nb.ipynb", "old.ipynb"}

notebook_rename(old, new) ==
  /\ Quiet
  /\ Serve([name |-> "notebook_rename", arguments |-> [old_path |-> old, new_path |-> new]])

notebook_export(p, f, o) ==
  /\ Quiet
  /\ Serve([name |-> "notebook_export", arguments |-> [path |-> p, format |-> f, output_path |-> o]])

NextFiles ==
  \/ ReceiveResponse(TRUE)
  \/ \E p \in FilePaths : notebook_create(p)
  \/ \E p \in FilePaths, notebook \in ExternalNotebooks : ExternalWrite(p, notebook)
  \/ \E old \in FilePaths, new \in FilePaths : notebook_rename(old, new)
  \/ \E p \in FilePaths : notebook_add_cell(p, "markdown", <<"b">>, -1)
  \/ \E p \in FilePaths : notebook_get_cell_count(p)
  \/ \E p \in FilePaths, f \in {"python", "html"}, o \in {"nb.html"} : notebook_export(p, f, o)

SpecFiles == Init /\ [][NextFiles]_vars

\* The queries, on notebooks with text in their cells.  A query writes no
\* file, so the documents it serves need no bound: they are the notebooks of
\* at most two of the cells below, written by another program.
QueryCells ==
  { [cell_type |-> "markdown", source |-> Str(<<"H", "e", "l", "l", "o", " ", "W", "o", "r", "l", "d">>)],
    [cell_type |-> "code", metadata |-> [k |-> "1"], source |-> Str(<<"h", "e", "l", "l", "o", " ", "a", "g", "a", "i", "n">>),
     execution_count |-> "1", outputs |-> <<"o1">>],
    [cell_type |-> "markdown", metadata |-> EmptyObject,
     source |-> Arr(<<<<"#", " ", "T", NL>>, <<" ", "a", "b", " ", NL>>, <<"A", "B">>>>)],
    [cell_type |-> "code", metadata |-> EmptyObject, source |-> Str(<<"c", "l", "a", "s", "s", " ", "A", NL, "d", "e", "f", " ", "f">>),
     execution_count |-> "null", outputs |-> <<>>],
    [cell_type |-> "code", metadata |-> EmptyObject, source |-> Str(<<"d", "e", "f", NL, "f">>)],
    [cell_type |-> "markdown", metadata |-> [k |-> "2"], source |-> Str(<<"#", NL, "t">>)],
    [cell_type |-> "raw", source |-> Str(<<"d", "e", "f", " ", "f">>)],
    [cell_type |-> "code", metadata |-> EmptyObject, source |-> Str(<<"c", "l", "a", "s", "s", " ", "B", "(", "A", ")">>),
     execution_count |-> "2", outputs |-> <<"o1", "o2">>] }

QueryNotebooks ==
  {[createEmptyNotebook EXCEPT !.cells = cells] :
     cells \in {<<>>} \cup {<<a>> : a \in QueryCells} \cup {<<a, b>> : a \in QueryCells, b \in QueryCells}}


ExternalWriteText(p, notebook) ==
  /\ Quiet
  /\ files' = writeJson(files, p, notebook)
  /\ created' = created \ {p}
  /\ last' = [request |-> [name |-> "(external write)", arguments |-> [path |-> p]],
              isError |-> FALSE, text |-> <<"", 0>>, before |-> files]
  /\ UNCHANGED <<prev, calls>>

\* A query served from start to end.
ServeQuery(request) ==
  LET r == CallToolRequest(files, request)
  IN  /\ files' = r.files
      /\ last' = [request |-> request, isError |-> r.isError, text |-> r.text, before |-> files]
      /\ UNCHANGED <<created, prev, calls>>

notebook_read_cell_metadata(p, i) ==
  /\ Quiet
  /\ ServeQuery([name |-> "notebook_read_cell_metadata", arguments |-> [path |-> p, cell_index |-> i]])

notebook_read_cell_output(p, i) ==
  /\ Quiet
  /\ ServeQuery([name |-> "notebook_read_cell_output", arguments |-> [path |-> p, cell_index |-> i]])

notebook_get_outline(p) ==
  /\ Quiet
  /\ ServeQuery([name |-> "notebook_get_outline", arguments |-> [path |-> p]])

notebook_search(p, q, cs) ==
  /\ Quiet
  /\ ServeQuery([name |-> "notebook_search",
                 arguments |-> [path |-> p, query |-> q, case_sensitive |-> cs]])

notebook_read(p) ==
  /\ Quiet
  /\ ServeQuery([name |-> "notebook_read", arguments |-> [path |-> p]])

notebook_read_cell(p, i) ==
  /\ Quiet
  /\ ServeQuery([name |-> "notebook_read_cell", arguments |-> [path |-> p, cell_index |-> i]])

notebook_read_metadata(p) ==
  /\ Quiet
  /\ ServeQuery([name |-> "notebook_read_metadata", arguments |-> [path |-> p]])

NextQuery ==
  \/ ReceiveResponse(FALSE)
  \/ \E p \in Paths, notebook \in QueryNotebooks : ExternalWriteText(p, notebook)
  \/ \E p \in Paths, i \in -1..2 : notebook_read_cell_metadata(p, i)
  \/ \E p \in Paths, i \in -1..2 : notebook_read_cell_output(p, i)
  \/ \E p \in Paths : notebook_get_outline(p)
  \/ \E p \in Paths, cs \in {<<>>, <<TRUE>>, <<FALSE>>},
          q \in {<<"H", "e", "l", "l", "o">>,
                 <<"a", "b">>, <<"b", " ", NL, "A">>,
                 <<"z">>, <<>>} :
       notebook_search(p, q, cs)

SpecQuery == Init /\ [][NextQuery]_vars

\* Notebooks of an older format version written by another program, validated
\* and changed by the tools.
NextFormat ==
  \/ ReceiveResponse(FALSE)
  \/ \E p \in Paths : notebook_create(p)
  \/ \E p \in Paths, notebook \in ExternalNotebooks \cup {[nb EXCEPT !.nbformat = 3] : nb \in ExternalNotebooks} :
       ExternalWrite(p, notebook)
  \/ \E p \in Paths : notebook_validate(p)
  \/ \E p \in Paths : notebook_get_info(p)
  \/ \E p \in Paths : notebook_add_cell(p, "markdown", <<"b">>, -1)
  \/ \E p \in Paths, i \in {0, 1} : notebook_delete_cell(p, i)
  \/ \E p \in Paths, m \in DocMetadatas : notebook_edit_metadata(p, m)

SpecFormat == Init /\ [][NextFormat]_vars

\* A cell deleted and a cell inserted in its place, each call followed by the next.
NextReinsert ==
  \/ ReceiveResponse(TRUE)
  \/ \E p \in Paths : notebook_create(p)
  \/ \E p \in Paths, notebook \in ExternalNotebooks : ExternalWrite(p, notebook)
  \/ \E p \in Paths, t \in {"code", "markdown"}, s \in {<<>>, <<"b">>}, i \in -1..1 :
       notebook_add_cell(p, t, s, i)
  \/ \E p \in Paths, i \in CellIndexes : notebook_delete_cell(p, i)

SpecReinsert == Init /\ [][NextReinsert]_vars

\* The dispatcher seen from its callers: a request arrives, then the handler
\* runs inside the dispatcher's try and its result, or the error result the
\* catch makes of what it throws, is the response.  Requests arrive one at a
\* time, and only those whose result stays within the bounds.
DispatchRequests ==
  {[name |-> "notebook_create", arguments |-> [path |-> p]] : p \in Paths}
  \cup {[name |-> "notebook_add_cell",
         arguments |-> [path |-> p, cell_type |-> "markdown", source |-> <<"b">>, index |-> -1]] : p \in Paths}
  \cup {[name |-> "notebook_delete_cell", arguments |-> [path |-> p, cell_index |-> i]] :
          p \in Paths, i \in {0, 1}}
  \cup {[name |-> "notebook_get_cell_count", arguments |-> [path |-> p]] : p \in Paths}
  \cup {[name |-> "notebook_run_cell", arguments |-> [path |-> p]] : p \in Paths}

CallTool(c, request) ==
  /\ \A d \in Clients : calls[d] = Idle
  /\ \A p \in DOMAIN CallToolRequest(files, request).files :
       WithinBounds(CallToolRequest(files, request).files[p])
  /\ calls' = [calls EXCEPT ![c] = [state |-> "called", request |-> request]]
  /\ UNCHANGED <<files, created, last, prev>>

\* mutant of Respond: what the handler throws is not caught, and no response is sent
Respond_NoCatch(c) ==
  /\ calls[c] # Idle
  /\ LET r == CallToolRequest(files, calls[c].request)
     IN  /\ ~r.isError
         /\ files' = r.files
         /\ last' = [request |-> calls[c].request, isError |-> r.isError, text |-> r.text,
                     before |-> files]
  /\ prev' = last
  /\ calls' = [calls EXCEPT ![c] = Idle]
  /\ UNCHANGED created

Respond(c) ==
  /\ calls[c] # Idle
  /\ LET r == CallToolRequest(files, calls[c].request)
     IN  /\ files' = r.files
         /\ last' = [request |-> calls[c].request, isError |-> r.isError, text |-> r.text,
                     before |-> files]
  /\ prev' = last
  /\ calls' = [calls EXCEPT ![c] = Idle]
  /\ UNCHANGED created

NextDispatch ==
  \/ \E c \in Clients, request \in DispatchRequests : CallTool(c, request)
  \/ \E c \in Clients : Respond(c)

\* The handler of a request that has arrived runs: Node's event loop leaves no
\* pending request unserved.
SpecDispatch == Init /\ [][NextDispatch]_vars /\ \A c \in Clients : WF_vars(Respond(c))

----------------------------------------------------------------------------
(* A notebook of Jupyter and one more cell, under the tools that change one *)
(* cell and the tool that changes the notebook's metadata *)

NextFrame ==
  \/ ReceiveResponse(FALSE)
  \/ \E p \in Paths, nb \in ExternalNotebooks : ExternalWrite(p, nb)
  \/ \E p \in Paths : notebook_add_cell(p, "markdown", <<"b">>, -1)
  \/ \E p \in Paths, i \in -1 .. 2, s \in Sources : notebook_edit_cell(p, i, s)
  \/ \E p \in Paths, i \in -1 .. 2, t \in CellTypes : notebook_change_cell_type(p, i, t)
  \/ \E p \in Paths, i \in -1 .. 2, m \in Metadatas : notebook_edit_cell_metadata(p, i, m)
  \/ \E p \in Paths, i \in -1 .. 2, o \in OutOutputLists : notebook_edit_cell_output(p, i, o)
  \/ \E p \in Paths, i \in -1 .. 2 : notebook_clear_cell_outputs(p, i)
  \/ \E p \in Paths, m \in DocMetadatas : notebook_edit_metadata(p, m)

SpecFrame == Init /\ [][NextFrame]_vars

----------------------------------------------------------------------------

(* Notebooks of Jupyter and of notebook_create, with cells inserted and     *)
(* cell sources replaced, under every query                                 *)

NextReads ==
  \/ ReceiveResponse(TRUE)
  \/ \E p \in Paths : notebook_create(p)
  \/ \E p \in Paths, nb \in ExternalNotebooks : ExternalWrite(p, nb)
  \/ \E p \in Paths, t \in {"code", "markdown"}, s \in Sources, i \in -2 .. 2 :
       notebook_add_cell(p, t, s, i)
  \/ \E p \in Paths, i \in -1 .. 2, s \in Sources : notebook_edit_cell(p, i, s)
  \/ \E p \in Paths : notebook_read(p)
  \/ \E p \in Paths, i \in -1 .. 2 : notebook_read_cell(p, i)
  \/ \E p \in Paths, i \in -1 .. 2 : notebook_read_cell_metadata(p, i)
  \/ \E p \in Paths, i \in -1 .. 2 : notebook_read_cell_output(p, i)
  \/ \E p \in Paths : notebook_get_cell_count(p)
  \/ \E p \in Paths : notebook_read_metadata(p)
  \/ \E p \in Paths : notebook_get_info(p)
  \/ \E p \in Paths : notebook_get_outline(p)
  \/ \E p \in Paths, q \in {<<"a">>, <<"B">>} : notebook_search(p, q, <<>>)
  \/ \E p \in Paths : notebook_validate(p)

SpecReads == Init /\ [][NextReads]_vars

----------------------------------------------------------------------------

(* Vocabulary of the properties: the call just served *)

Called(name) == last.request.name = name
Arg == last.request.arguments
\* the call found a notebook file to read
Loaded == last.request.name \in CellTools /\ Arg.path \in DOMAIN last.before
\* the cells stored before the call and after it
Pre == last.before[Arg.path].cells
Post == files[Arg.path].cells
Succeeded == Loaded /\ ~last.isError
\* the call failed and stored nothing
FailedUnchanged == last.isError /\ files = last.before

InRange(i, n) == 0 <= i /\ i < n
\* the source text of a cell, and the number of its lines: one more than its newlines
Text(cell) == normalizeSource(cell.source)
LineCount(text) == 1 + Cardinality({k \in DOMAIN text : text[k] = NL})
HasExecutionState(cell) == "execution_count" \in DOMAIN cell /\ "outputs" \in DOMAIN cell
HasNoExecutionState(cell) == "execution_count" \notin DOMAIN cell /\ "outputs" \notin DOMAIN cell
\* the cells of seq from 0-based position from up to, not including, position to
Cells(seq, from, to) == [k \in 1..(to - from) |-> seq[from + k]]

----------------------------------------------------------------------------
(* C1: an index-addressed operation whose precondition fails (index outside  *)
(* [0,len), merge index outside [0,len-1), split line outside [0,lineCount), *)
(* edit_outputs on a non-code cell) returns an error and leaves the stored   *)
(* documents exactly as they were before the call.                           *)

C1_PreconditionFails ==
  CASE Called("notebook_move_cell") ->
         ~InRange(Arg.from_index, Len(Pre)) \/ ~InRange(Arg.to_index, Len(Pre))
    [] Called("notebook_merge_cells") -> ~InRange(Arg.cell_index, Len(Pre) - 1)
    [] Called("notebook_split_cell") ->
         \/ ~InRange(Arg.cell_index, Len(Pre))
         \/ ~InRange(Arg.line_number, LineCount(Text(Pre[Arg.cell_index + 1])))
    [] Called("notebook_edit_cell_output") ->
         \/ ~InRange(Arg.cell_index, Len(Pre))
         \/ Pre[Arg.cell_index + 1].cell_type # "code"
    [] OTHER -> ~InRange(Arg.cell_index, Len(Pre))

C1_IndexTools ==
  {"notebook_edit_cell", "notebook_delete_cell", "notebook_change_cell_type",
   "notebook_duplicate_cell", "notebook_move_cell", "notebook_split_cell",
   "notebook_merge_cells", "notebook_edit_cell_metadata", "notebook_edit_cell_output",
   "notebook_clear_cell_outputs"}

C1_FailedCallStoresNothing ==
  (Loaded /\ last.request.name \in C1_IndexTools /\ C1_PreconditionFails) => FailedUnchanged

\* merge(0) on a 1-cell notebook has failed
C1_Witness ==
  /\ Loaded /\ Called("notebook_merge_cells") /\ Arg.cell_index = 0 /\ Len(Pre) = 1
  /\ last.isError /\ files = last.before

----------------------------------------------------------------------------
(* C2: in every document that descends from notebook_create, every code     *)
(* cell carries both execution_count and outputs, and every markdown or raw *)
(* cell carries neither.                                                    *)

C2_ExecutionStateMatchesType ==
  \A p \in created \cap DOMAIN files :
    \A k \in DOMAIN files[p].cells :
      LET cell == files[p].cells[k]
      IN  IF cell.cell_type = "code" THEN HasExecutionState(cell) ELSE HasNoExecutionState(cell)

\* a code cell with outputs has just been retyped to markdown, beside a code cell
C2_Witness ==
  /\ Succeeded /\ Called("notebook_change_cell_type") /\ Arg.new_type = "markdown"
  /\ Arg.path \in created
  /\ Pre[Arg.cell_index + 1].cell_type = "code" /\ Pre[Arg.cell_index + 1].outputs # <<>>
  /\ \E k \in DOMAIN Post : Post[k].cell_type = "code"

----------------------------------------------------------------------------
(* C10: delete(i) with 0 <= i < len removes exactly the cell at i: the      *)
(* cells below i stay, each cell at j > i moves to j-1, and the count drops *)
(* by one.                                                                  *)

C10_DeleteRemovesOneCell ==
  (Loaded /\ Called("notebook_delete_cell") /\ InRange(Arg.cell_index, Len(Pre))) =>
    /\ ~last.isError
    /\ Len(Post) = Len(Pre) - 1
    /\ \A j \in 0..(Len(Pre) - 1) :
         /\ j < Arg.cell_index => Post[j + 1] = Pre[j + 1]
         /\ j > Arg.cell_index => Post[j] = Pre[j + 1]

\* the middle cell of three has been deleted
C10_Witness ==
  /\ Succeeded /\ Called("notebook_delete_cell") /\ Arg.cell_index = 1 /\ Len(Pre) = 3
  /\ Pre[1] # Pre[3] /\ Post = <<Pre[1], Pre[3]>>

----------------------------------------------------------------------------
(* C3: insert(index, type, source) succeeds for every integer index and     *)
(* grows the cell count by one, keeping the order of the other cells.       *)
(* As claimed, the new cell ends at position index+1 for every index: that  *)
(* fails for index >= len and index < -1, where Array.prototype.splice      *)
(* clamps its start.                                                        *)

\* Post is Pre with the cell of the call inserted at 0-based position pos
C3_InsertedAt(pos) ==
  /\ InRange(pos, Len(Pre) + 1)
  /\ Len(Post) = Len(Pre) + 1
  /\ Text(Post[pos + 1]) = Arg.source
  /\ Post[pos + 1].cell_type = Arg.cell_type
  /\ Cells(Post, 0, pos) = Cells(Pre, 0, pos)
  /\ Cells(Post, pos + 1, Len(Post)) = Cells(Pre, pos, Len(Pre))

C3_Position ==
  IF Arg.index >= Len(Pre) THEN Len(Pre)
  ELSE IF Arg.index >= -1 THEN Arg.index + 1
  ELSE IF Len(Pre) + Arg.index + 1 > 0 THEN Len(Pre) + Arg.index + 1
  ELSE 0

----------------------------------------------------------------------------
(* C6: split(i, k) with 0 <= i < len and 0 <= k < lineCount leaves lines    *)
(* [0,k) in cell i and inserts at i+1 a new cell of the same type holding   *)
(* lines [k,end), with empty metadata and, if code, execution_count null    *)
(* and no outputs; the count grows by one; k = 0 empties cell i's source.   *)

C6_SplitAtLine ==
  (/\ Loaded /\ Called("notebook_split_cell")
   /\ InRange(Arg.cell_index, Len(Pre))
   /\ InRange(Arg.line_number, LineCount(Text(Pre[Arg.cell_index + 1])))) =>
    LET i == Arg.cell_index
        k == Arg.line_number
        original == Pre[i + 1]
        first == Post[i + 1]
        second == Post[i + 2]
    IN  /\ ~last.isError
        /\ Len(Post) = Len(Pre) + 1
        /\ IF k = 0
           THEN Text(first) = <<>> /\ Text(second) = Text(original)
           ELSE /\ Text(original) = Text(first) \o <<NL>> \o Text(second)
                /\ LineCount(Text(first)) = k
        /\ second.cell_type = original.cell_type
        /\ second.metadata = EmptyObject
        /\ IF original.cell_type = "code"
           THEN HasExecutionState(second) /\ second.execution_count = "null" /\ second.outputs = <<>>
           ELSE HasNoExecutionState(second)
        /\ Cells(Post, 0, i) = Cells(Pre, 0, i)
        /\ Cells(Post, i + 2, Len(Post)) = Cells(Pre, i + 1, Len(Pre))

\* a code cell holding "a\nb" has been split at line 1 into "a" and "b"
C6_Witness ==
  /\ Succeeded /\ Called("notebook_split_cell") /\ Arg.line_number = 1
  /\ Pre[Arg.cell_index + 1].cell_type = "code"
  /\ Text(Pre[Arg.cell_index + 1]) = <<"a", NL, "b">>
  /\ Text(Post[Arg.cell_index + 1]) = <<"a">>
  /\ Text(Post[Arg.cell_index + 2]) = <<"b">>

----------------------------------------------------------------------------
(* C7: merge(i) with 0 <= i < len-1 sets cell i's source to its source, a   *)
(* newline and the source of cell i+1, keeps cell i's type, metadata,       *)
(* execution_count and outputs whatever the type of cell i+1, removes cell  *)
(* i+1 and reduces the count by one.                                        *)

C7_MergeJoinsWithNewline ==
  (Loaded /\ Called("notebook_merge_cells") /\ InRange(Arg.cell_index, Len(Pre) - 1)) =>
    LET i == Arg.cell_index
    IN  /\ ~last.isError
        /\ Len(Post) = Len(Pre) - 1
        /\ Text(Post[i + 1]) = Text(Pre[i + 1]) \o <<NL>> \o Text(Pre[i + 2])
        /\ DelField(Post[i + 1], "source") = DelField(Pre[i + 1], "source")
        /\ Cells(Post, 0, i) = Cells(Pre, 0, i)
        /\ Cells(Post, i + 1, Len(Post)) = Cells(Pre, i + 2, Len(Pre))

\* an executed code cell with an output has been merged with the markdown
\* cell after it
C7_Witness ==
  /\ Succeeded /\ Called("notebook_merge_cells")
  /\ Pre[Arg.cell_index + 1].cell_type = "code"
  /\ Pre[Arg.cell_index + 1].outputs # <<>>
  /\ Pre[Arg.cell_index + 1].execution_count # "null"
  /\ Post[Arg.cell_index + 1].execution_count = Pre[Arg.cell_index + 1].execution_count
  /\ Pre[Arg.cell_index + 2].cell_type = "markdown"
  /\ Post[Arg.cell_index + 1].outputs = Pre[Arg.cell_index + 1].outputs

----------------------------------------------------------------------------
(* C9: move(from, to) with both indices in [0,len) preserves the cell count *)
(* and the multiset of cells, and move(i, i) leaves the sequence as it was. *)

Occurrences(seq, x) == Cardinality({k \in DOMAIN seq : seq[k] = x})

C9_MovePreservesCells ==
  (/\ Loaded /\ Called("notebook_move_cell")
   /\ InRange(Arg.from_index, Len(Pre)) /\ InRange(Arg.to_index, Len(Pre))) =>
    /\ ~last.isError
    /\ Len(Post) = Len(Pre)
    /\ \A k \in DOMAIN Pre : Occurrences(Post, Pre[k]) = Occurrences(Pre, Pre[k])
    /\ Arg.from_index = Arg.to_index => Post = Pre

\* the first of three different cells has been moved to the end
C9_Witness ==
  /\ Succeeded /\ Called("notebook_move_cell") /\ Arg.from_index = 0 /\ Arg.to_index = 2
  /\ Len(Pre) = 3 /\ Cardinality({Pre[1], Pre[2], Pre[3]}) = 3
  /\ Post = <<Pre[2], Pre[3], Pre[1]>>

----------------------------------------------------------------------------
(* C8: duplicate(i, n) with valid i and n >= 1 (n = 1 when count is         *)
(* omitted) grows the cell count by n, places the copies at i+1 .. i+n,     *)
(* gives every copy the original's source, type and metadata, gives every   *)
(* copy of a code cell outputs [] and execution_count null, and leaves the  *)
(* original cell, its outputs and execution_count included, unchanged.      *)

C8_Count == IF Arg.count = <<>> THEN 1 ELSE Arg.count[1]

C8_DuplicateInsertsFreshCopies ==
  (/\ Loaded /\ Called("notebook_duplicate_cell")
   /\ InRange(Arg.cell_index, Len(Pre)) /\ C8_Count >= 1) =>
    LET i == Arg.cell_index
        n == C8_Count
        original == Pre[i + 1]
    IN  /\ ~last.isError
        /\ Len(Post) = Len(Pre) + n
        /\ Post[i + 1] = original
        /\ \A j \in (i + 1)..(i + n) :
             LET copy == Post[j + 1]
             IN  /\ copy.source = original.source
                 /\ copy.cell_type = original.cell_type
                 /\ copy.metadata = original.metadata
                 /\ IF original.cell_type = "code"
                    THEN /\ HasExecutionState(copy)
                         /\ copy.outputs = <<>> /\ copy.execution_count = "null"
                    ELSE HasNoExecutionState(copy)
        /\ Cells(Post, 0, i) = Cells(Pre, 0, i)
        /\ Cells(Post, i + 1 + n, Len(Post)) = Cells(Pre, i + 1, Len(Pre))

\* an executed code cell with an output has been duplicated twice
C8_Witness ==
  /\ Succeeded /\ Called("notebook_duplicate_cell") /\ Arg.count = <<2>>
  /\ Pre[Arg.cell_index + 1].cell_type = "code"
  /\ Pre[Arg.cell_index + 1].outputs # <<>>
  /\ Pre[Arg.cell_index + 1].execution_count # "null"
  /\ Len(Post) = Len(Pre) + 2
  /\ Post[Arg.cell_index + 1] = Pre[Arg.cell_index + 1]
  /\ Post[Arg.cell_index + 2].outputs = <<>>
  /\ Post[Arg.cell_index + 3].execution_count = "null"

----------------------------------------------------------------------------
(* C5: for every valid index i and every line k with 1 <= k < lineCount,    *)
(* split(i, k) followed by merge(i) leaves cell i with exactly the source   *)
(* text it had before the split, and the cell count returns to its value    *)
(* before the split; for k = 0 the count returns too, but the source comes  *)
(* back with a newline in front of it.                                      *)

\* merge(i) has been served straight after a successful split(i, k)
C5_MergeAfterSplit ==
  /\ Called("notebook_merge_cells") /\ prev.request.name = "notebook_split_cell"
  /\ ~prev.isError
  /\ prev.request.arguments.path = Arg.path
  /\ prev.request.arguments.cell_index = Arg.cell_index
  /\ last.before = CallToolRequest(prev.before, prev.request).files

C5_Original == prev.before[Arg.path].cells[Arg.cell_index + 1]

\* C5 as the specification states it, for every k with 0 <= k < lineCount
C5_SplitThenMergeRestores ==
  C5_MergeAfterSplit =>
    /\ ~last.isError
    /\ Text(Post[Arg.cell_index + 1]) = Text(C5_Original)
    /\ Len(Post) = Len(prev.before[Arg.path].cells)

\* C5 amended: the source is restored for k >= 1, and gains a leading newline for k = 0
C5_SplitThenMergeRestoresFromLineOne ==
  C5_MergeAfterSplit =>
    /\ ~last.isError
    /\ Len(Post) = Len(prev.before[Arg.path].cells)
    /\ Text(Post[Arg.cell_index + 1]) =
         IF prev.request.arguments.line_number >= 1 THEN Text(C5_Original)
         ELSE <<NL>> \o Text(C5_Original)

\* a two-line cell has been split at its second line and merged again
C5_Witness ==
  /\ C5_MergeAfterSplit /\ ~last.isError
  /\ prev.request.arguments.line_number = 1
  /\ LineCount(Text(C5_Original)) = 2
  /\ Text(Post[Arg.cell_index + 1]) = Text(C5_Original)

----------------------------------------------------------------------------
(* C4: operations on the same notebook never interleave: when two tool      *)
(* calls that target the same notebook are in flight at once, the final     *)
(* stored document equals the result of applying both operations in some    *)
(* serial order, and neither update is lost.                                *)

\* two calls on the same notebook were in flight at once and both have ended
C4_BothEnded ==
  /\ \A c \in Clients : calls[c] = Idle
  /\ last.request \in ConcRequests /\ prev.request \in ConcRequests
  /\ last.request.arguments.path = prev.request.arguments.path

C4_Serial(base, first, second) ==
  CallToolRequest(CallToolRequest(base, first).files, second).files

C4_CallsNeverInterleave ==
  C4_BothEnded =>
    \/ files = C4_Serial(prev.before, prev.request, last.request)
    \/ files = C4_Serial(prev.before, last.request, prev.request)

----------------------------------------------------------------------------
(* C11: bulk_insert(index, cells) succeeds for every integer index, grows   *)
(* the cell count by k = the number of cells given, inserts them as one     *)
(* contiguous block in the order given and keeps the order of the cells     *)
(* that were there.  As claimed, the block occupies index+1 .. index+k for  *)
(* every index: that fails for index >= len and index < -1, where           *)
(* Array.prototype.splice clamps its start.                                 *)

\* Post is Pre with the cells of the call inserted as a block at 0-based position pos
C11_BlockAt(pos) ==
  LET k == Len(Arg.cells)
  IN  /\ InRange(pos, Len(Pre) + 1)
      /\ Len(Post) = Len(Pre) + k
      /\ \A j \in 1..k :
           /\ Text(Post[pos + j]) = Arg.cells[j].source
           /\ Post[pos + j].cell_type = Arg.cells[j].cell_type
      /\ Cells(Post, 0, pos) = Cells(Pre, 0, pos)
      /\ Cells(Post, pos + k, Len(Post)) = Cells(Pre, pos, Len(Pre))

C11_Position ==
  IF Arg.index >= Len(Pre) THEN Len(Pre)
  ELSE IF Arg.index >= -1 THEN Arg.index + 1
  ELSE Max(Len(Pre) + Arg.index + 1, 0)

----------------------------------------------------------------------------
(* C12: retype(i, newType) with valid i sets the cell's type and keeps its  *)
(* source and metadata; when newType = code the cell ends with              *)
(* execution_count = null and outputs = [], when newType is markdown or raw *)
(* it ends with neither field; so a code cell with outputs that is retyped  *)
(* to markdown and back to code ends with outputs = [] and                  *)
(* execution_count = null, never with the earlier outputs.                  *)

C12_RetypeStep ==
  (Loaded /\ Called("notebook_change_cell_type") /\ InRange(Arg.cell_index, Len(Pre))) =>
    LET i == Arg.cell_index
        old == Pre[i + 1]
        new == Post[i + 1]
    IN  /\ ~last.isError
        /\ Len(Post) = Len(Pre)
        /\ \A k \in DOMAIN Pre : k # i + 1 => Post[k] = Pre[k]
        /\ new.cell_type = Arg.new_type
        /\ new.source = old.source
        /\ new.metadata = old.metadata
        /\ DOMAIN new \subseteq {"cell_type", "source", "metadata", "execution_count", "outputs"}
        /\ IF Arg.new_type = "code"
           THEN HasExecutionState(new) /\ new.execution_count = "null" /\ new.outputs = <<>>
           ELSE HasNoExecutionState(new)

\* retype(i, code) has been served straight after a successful retype(i, markdown)
\* of a code cell that had outputs
C12_BackToCode ==
  /\ Loaded /\ Called("notebook_change_cell_type") /\ Arg.new_type = "code"
  /\ prev.request.name = "notebook_change_cell_type" /\ ~prev.isError
  /\ prev.request.arguments.new_type = "markdown"
  /\ prev.request.arguments.path = Arg.path
  /\ prev.request.arguments.cell_index = Arg.cell_index
  /\ last.before = CallToolRequest(prev.before, prev.request).files
  /\ LET first == prev.before[Arg.path].cells[Arg.cell_index + 1]
     IN  first.cell_type = "code" /\ "outputs" \in DOMAIN first /\ first.outputs # <<>>

C12_RetypeResetsExecutionState ==
  /\ C12_RetypeStep
  /\ C12_BackToCode =>
       /\ ~last.isError
       /\ Post[Arg.cell_index + 1].outputs = <<>>
       /\ Post[Arg.cell_index + 1].execution_count = "null"

\* an executed code cell with an output has gone to markdown and back to code
C12_Witness ==
  /\ C12_BackToCode /\ ~last.isError
  /\ prev.before[Arg.path].cells[Arg.cell_index + 1].execution_count # "null"
  /\ HasNoExecutionState(Pre[Arg.cell_index + 1])
  /\ Post[Arg.cell_index + 1].outputs = <<>>
  /\ Post[Arg.cell_index + 1].source = prev.before[Arg.path].cells[Arg.cell_index + 1].source

----------------------------------------------------------------------------
(* Vocabulary: the effect of clearing a cell, and the frame of a call *)

\* the cell with its outputs emptied and its execution_count null
Cleared(cell) == [f \in DOMAIN cell |->
                    IF f = "outputs" THEN <<>> ELSE IF f = "execution_count" THEN "null" ELSE cell[f]]
\* the call has changed nothing of the notebook but its cells
OnlyCellsChanged == files = [last.before EXCEPT ![Arg.path].cells = Post]
\* the call has changed no cell but cell i
OnlyCellChanged(i) == Len(Post) = Len(Pre) /\ \A k \in DOMAIN Pre : k # i + 1 => Post[k] = Pre[k]

----------------------------------------------------------------------------
(* C13: edit_outputs(i, outputs) succeeds only when 0 <= i < len and cell i *)
(* is a code cell; on success the outputs of cell i are exactly the         *)
(* sequence given, and its execution_count, source and metadata are as      *)
(* before; on a markdown or raw cell it fails with the not-a-code-cell      *)
(* error and stores nothing.                                                *)

C13_EditOutputsReplaces ==
  (Loaded /\ Called("notebook_edit_cell_output")) =>
    LET i == Arg.cell_index
    IN  IF ~InRange(i, Len(Pre)) THEN FailedUnchanged
        ELSE IF Pre[i + 1].cell_type # "code"
        THEN FailedUnchanged /\ last.text[1] = "Cell is not a code cell"
        ELSE /\ ~last.isError
             /\ OnlyCellsChanged /\ OnlyCellChanged(i)
             /\ Post[i + 1] = [Pre[i + 1] EXCEPT !.outputs = Arg.outputs]

\* the output of an executed cell has been replaced by another output
C13_Witness ==
  /\ Succeeded /\ Called("notebook_edit_cell_output")
  /\ Pre[Arg.cell_index + 1].outputs = <<"o1">> /\ Arg.outputs = <<"o2">>
  /\ Pre[Arg.cell_index + 1].execution_count # "null"
  /\ Post[Arg.cell_index + 1].outputs = <<"o2">>
  /\ Post[Arg.cell_index + 1].execution_count = Pre[Arg.cell_index + 1].execution_count

----------------------------------------------------------------------------
(* C14: clear_all_outputs sets outputs = [] and execution_count = null on   *)
(* every code cell and changes nothing else, and it is idempotent: applied  *)
(* a second time it leaves the document as the first application left it.   *)

\* clear_all_outputs has been served straight after a clear_all_outputs
C14_ClearedTwice ==
  /\ Loaded /\ Called("notebook_clear_all_outputs")
  /\ prev.request = last.request /\ ~prev.isError
  /\ last.before = CallToolRequest(prev.before, prev.request).files

C14_ClearAllIsIdempotent ==
  /\ (Loaded /\ Called("notebook_clear_all_outputs")) =>
       /\ ~last.isError
       /\ OnlyCellsChanged
       /\ Len(Post) = Len(Pre)
       /\ \A k \in DOMAIN Pre :
            Post[k] = IF Pre[k].cell_type = "code" THEN Cleared(Pre[k]) ELSE Pre[k]
  /\ C14_ClearedTwice => (~last.isError /\ files = last.before)

\* a notebook with an executed code cell with an output, and another cell,
\* has been cleared twice
C14_Witness ==
  /\ C14_ClearedTwice /\ ~last.isError
  /\ Len(Post) = 2
  /\ \E k \in DOMAIN Post :
       LET first == prev.before[Arg.path].cells[k]
       IN  /\ first.cell_type = "code" /\ first.outputs # <<>> /\ first.execution_count # "null"
           /\ Post[k].outputs = <<>> /\ Post[k].execution_count = "null"
  /\ files = last.before /\ files # prev.before

----------------------------------------------------------------------------
(* C15: clear_outputs(i) with valid i sets outputs = [] and                 *)
(* execution_count = null when cell i is a code cell, and succeeds leaving  *)
(* the whole document unchanged when cell i is markdown or raw.             *)

C15_ClearOutputsOfCodeCell ==
  (Loaded /\ Called("notebook_clear_cell_outputs") /\ InRange(Arg.cell_index, Len(Pre))) =>
    LET i == Arg.cell_index
    IN  /\ ~last.isError
        /\ IF Pre[i + 1].cell_type = "code"
           THEN /\ OnlyCellsChanged /\ OnlyCellChanged(i)
                /\ Post[i + 1] = Cleared(Pre[i + 1])
                /\ Post[i + 1].outputs = <<>> /\ Post[i + 1].execution_count = "null"
           ELSE files = last.before

\* clear_outputs has succeeded on a markdown cell that stands beside an
\* executed code cell, which kept its output
C15_Witness ==
  /\ Succeeded /\ Called("notebook_clear_cell_outputs")
  /\ Pre[Arg.cell_index + 1].cell_type = "markdown"
  /\ \E k \in DOMAIN Pre : Pre[k].cell_type = "code" /\ Pre[k].outputs # <<>>
  /\ files = last.before

----------------------------------------------------------------------------
(* C16: replace_source(i, s) with valid i changes only the source of cell   *)
(* i: the type, metadata, execution_count and outputs of the cell are as    *)
(* before the call, and so are the other cells.                             *)

C16_EditChangesSourceOnly ==
  (Loaded /\ Called("notebook_edit_cell") /\ InRange(Arg.cell_index, Len(Pre))) =>
    LET i == Arg.cell_index
    IN  /\ ~last.isError
        /\ OnlyCellsChanged /\ OnlyCellChanged(i)
        /\ Text(Post[i + 1]) = Arg.new_source
        /\ DOMAIN Post[i + 1] = DOMAIN Pre[i + 1]
        /\ \A f \in DOMAIN Pre[i + 1] \ {"source"} : Post[i + 1][f] = Pre[i + 1][f]

\* the source of an executed code cell with an output has been replaced by
\* another text
C16_Witness ==
  /\ Succeeded /\ Called("notebook_edit_cell")
  /\ Text(Post[Arg.cell_index + 1]) # Text(Pre[Arg.cell_index + 1])
  /\ Pre[Arg.cell_index + 1].cell_type = "code"
  /\ Pre[Arg.cell_index + 1].execution_count # "null"
  /\ Post[Arg.cell_index + 1].outputs = <<"o1">>
  /\ Post[Arg.cell_index + 1].execution_count = Pre[Arg.cell_index + 1].execution_count

----------------------------------------------------------------------------
(* C17: edit_metadata(i, partial) and edit_document_metadata(partial) are   *)
(* shallow merges: afterwards every key of partial maps to partial's value, *)
(* every key of the old metadata that is absent from partial keeps its old  *)
(* value, and no other key exists; nothing else of the notebook changes.    *)

C17_Merged(old, partial, new) ==
  /\ DOMAIN new = DOMAIN old \cup DOMAIN partial
  /\ \A k \in DOMAIN partial : new[k] = partial[k]
  /\ \A k \in DOMAIN old \ DOMAIN partial : new[k] = old[k]

C17_MetadataShallowMerge ==
  /\ (Loaded /\ Called("notebook_edit_cell_metadata") /\ InRange(Arg.cell_index, Len(Pre))) =>
       LET i == Arg.cell_index
       IN  /\ ~last.isError
           /\ OnlyCellsChanged /\ OnlyCellChanged(i)
           /\ C17_Merged(Pre[i + 1].metadata, Arg.metadata, Post[i + 1].metadata)
           /\ DOMAIN Post[i + 1] = DOMAIN Pre[i + 1]
           /\ \A f \in DOMAIN Pre[i + 1] \ {"metadata"} : Post[i + 1][f] = Pre[i + 1][f]
  /\ (Loaded /\ Called("notebook_edit_metadata")) =>
       /\ ~last.isError
       /\ C17_Merged(last.before[Arg.path].metadata, Arg.metadata, files[Arg.path].metadata)
       /\ files = [last.before EXCEPT ![Arg.path].metadata = files[Arg.path].metadata]

\* a merge has replaced the kernelspec of the notebook whole, overwritten
\* another key and kept language_info, in a notebook with a cell whose
\* metadata an earlier merge has overwritten in one key and kept in another
C17_Witness ==
  /\ Succeeded /\ Called("notebook_edit_metadata")
  /\ "k" \in DOMAIN last.before[Arg.path].metadata
  /\ last.before[Arg.path].metadata.k = "1"
  /\ last.before[Arg.path].metadata.kernelspec = createEmptyNotebook.metadata.kernelspec
  /\ files[Arg.path].metadata =
       [kernelspec |-> [name |-> "ir"], k |-> "2",
        language_info |-> createEmptyNotebook.metadata.language_info]
  /\ \E c \in DOMAIN Post : Post[c].metadata = [k |-> "1", j |-> "1"]

----------------------------------------------------------------------------
(* C18: validate fails exactly when a top-level key among cells, metadata,  *)
(* nbformat, nbformat_minor is missing, or cells is not a sequence, or some *)
(* cell has no type or a type outside {code, markdown, raw}, or some cell   *)
(* has no source field; otherwise it passes.  A failure is a failed         *)
(* validation result with a reason, and validate never changes the stored   *)
(* document.                                                                *)

C18_Violates(document) ==
  \/ \E f \in {"cells", "metadata", "nbformat", "nbformat_minor"} : f \notin DOMAIN document
  \/ document.cells = NotAnArray
  \/ \E k \in DOMAIN document.cells :
       LET cell == document.cells[k]
       IN  \/ cell = JsonNull
           \/ "cell_type" \notin DOMAIN cell
           \/ cell.cell_type \notin CellTypes
           \/ "source" \notin DOMAIN cell

C18_Reasons ==
  {"Validation failed: Missing required fields",
   "Validation failed: 'cells' must be an array",
   "Validation failed: Cannot read properties of null",
   "Validation failed: Invalid cell_type at index",
   "Validation failed: Missing 'source' in cell at index"}

C18_ValidateFailsExactlyOnViolations ==
  (Called("notebook_validate") /\ Arg.path \in DOMAIN last.before) =>
    /\ files = last.before
    /\ last.isError <=> C18_Violates(last.before[Arg.path])
    /\ IF last.isError THEN last.text[1] \in C18_Reasons
       ELSE last.text[1] = "Notebook validation passed"

\* validate has accepted the first cell of a notebook and refused the second,
\* which has no source
C18_Witness ==
  /\ Called("notebook_validate") /\ last.isError
  /\ last.text = <<"Validation failed: Missing 'source' in cell at index", 1>>
  /\ files = last.before

----------------------------------------------------------------------------
(* C19: every document reachable from create by any sequence of the         *)
(* mutation operations, successful or failed, with cell types from          *)
(* {code, markdown, raw}, passes validate.                                  *)

C19_CreatedNotebooksAreValid ==
  /\ \A p \in created \cap DOMAIN files : ~validateNotebook(files[p]).isError
  /\ (Called("notebook_validate") /\ Arg.path \in created \cap DOMAIN last.before) =>
       (~last.isError /\ last.text[1] = "Notebook validation passed")

\* validate has passed a notebook that create and the mutations have brought
\* to three cells of more than one type
C19_Witness ==
  /\ Called("notebook_validate") /\ ~last.isError
  /\ Arg.path \in created \cap DOMAIN files
  /\ Len(files[Arg.path].cells) = 3
  /\ \E j, k \in DOMAIN files[Arg.path].cells :
       /\ files[Arg.path].cells[j].cell_type = "raw"
       /\ files[Arg.path].cells[k].cell_type = "code"

----------------------------------------------------------------------------
(* C20: for every document reachable from create, info reports cell_count   *)
(* equal to count() and to code_cells + markdown_cells + raw_cells, each    *)
(* per-type count being the number of cells of that type; after create,     *)
(* insert(-1, markdown, ..) and insert(0, code, ..) it reports 2 cells, 1   *)
(* code and 1 markdown, with cell 0 markdown and cell 1 code.               *)

C20_CellsOfType(cells, type) == Cardinality({k \in DOMAIN cells : cells[k].cell_type = type})

C20_InfoAgrees(info, notebook) ==
  /\ info.cell_count = getCellCount(notebook).text[2]
  /\ info.cell_count = info.code_cells + info.markdown_cells + info.raw_cells
  /\ info.code_cells = C20_CellsOfType(notebook.cells, "code")
  /\ info.markdown_cells = C20_CellsOfType(notebook.cells, "markdown")
  /\ info.raw_cells = C20_CellsOfType(notebook.cells, "raw")

\* insert(0, code, ..) has been served on a notebook that holds the one
\* markdown cell that insert(-1, markdown, ..) puts in a new notebook
C20_AfterTheTwoInserts ==
  /\ Succeeded /\ Called("notebook_add_cell") /\ Arg.path \in created
  /\ Arg.index = 0 /\ Arg.cell_type = "code"
  /\ \E s \in Sources : Pre = <<NewCell("markdown", s)>>

C20_InfoCountsCells ==
  /\ \A p \in created \cap DOMAIN files :
       C20_InfoAgrees(getNotebookInfo(files[p]).text[2], files[p])
  /\ (Called("notebook_get_info") /\ Arg.path \in created \cap DOMAIN last.before) =>
       (~last.isError /\ files = last.before /\ C20_InfoAgrees(last.text[2], files[Arg.path]))
  /\ C20_AfterTheTwoInserts =>
       LET info == getNotebookInfo(files[Arg.path]).text[2]
       IN  /\ info.cell_count = 2 /\ info.code_cells = 1
           /\ info.markdown_cells = 1 /\ info.raw_cells = 0
           /\ Post[1].cell_type = "markdown" /\ Post[2].cell_type = "code"

\* info has reported 2 cells, 1 code and 1 markdown on a notebook made by
\* create and holding a markdown cell followed by a code cell
C20_Witness ==
  /\ Called("notebook_get_info") /\ ~last.isError /\ Arg.path \in created
  /\ last.text[2].cell_count = 2 /\ last.text[2].code_cells = 1
  /\ last.text[2].markdown_cells = 1
  /\ files[Arg.path].cells[1].cell_type = "markdown"
  /\ files[Arg.path].cells[2].cell_type = "code"

----------------------------------------------------------------------------
(* C21: create(path) stores at path a document with empty cells, nbformat 4, *)
(* nbformat_minor 4, kernel name python3 and language name python, whatever  *)
(* was stored at that path before, and leaves the other paths alone; the     *)
(* count() that follows it returns 0.                                        *)

C21_CountFollowsCreate ==
  /\ prev.request.name = "notebook_create"
  /\ Called("notebook_get_cell_count")
  /\ Arg.path = prev.request.arguments.path

C21_CreateStoresEmptyNotebook ==
  /\ Called("notebook_create") =>
       /\ ~last.isError
       /\ Arg.path \in DOMAIN files
       /\ files[Arg.path].cells = <<>>
       /\ files[Arg.path].nbformat = 4
       /\ files[Arg.path].nbformat_minor = 4
       /\ files[Arg.path].metadata.kernelspec.name = "python3"
       /\ files[Arg.path].metadata.language_info.name = "python"
       /\ DOMAIN files = DOMAIN last.before \cup {Arg.path}
       /\ \A p \in DOMAIN last.before : p # Arg.path => files[p] = last.before[p]
  /\ C21_CountFollowsCreate => (~last.isError /\ last.text[2] = 0)

\* a notebook with a cell is overwritten by create, and the count that follows is 0
C21_Witness ==
  /\ C21_CountFollowsCreate
  /\ prev.request.arguments.path \in DOMAIN prev.before
  /\ prev.before[prev.request.arguments.path].cells # <<>>
  /\ last.text[2] = 0

----------------------------------------------------------------------------
(* C29: notebook_export produces the notebook in the requested format: after *)
(* a successful export call with an output_path, an exported file exists at  *)
(* output_path.  exportNotebook is a stub that returns a notice and writes   *)
(* nothing, so the property fails.                                           *)

C29_ExportWritesFile ==
  (Called("notebook_export") /\ ~last.isError) => Arg.output_path \in DOMAIN files

----------------------------------------------------------------------------
(* C30: after a successful notebook_rename(old, new) the document at new is  *)
(* the one that was at old and nothing is stored at old; a cell operation    *)
(* addressed to old that follows fails and creates no file there.            *)

C30_OperationFollowsRename ==
  /\ prev.request.name = "notebook_rename"
  /\ ~prev.isError
  /\ last.request.name \in {"notebook_add_cell", "notebook_get_cell_count"}
  /\ Arg.path = prev.request.arguments.old_path

C30_RenameMoves ==
  /\ (Called("notebook_rename") /\ ~last.isError) =>
       /\ Arg.old_path \in DOMAIN last.before
       /\ Arg.new_path \in DOMAIN files
       /\ files[Arg.new_path] = last.before[Arg.old_path]
       /\ Arg.old_path \notin DOMAIN files
       /\ \A p \in DOMAIN last.before \ {Arg.old_path} : p \in DOMAIN files /\ files[p] = last.before[p]
  /\ C30_OperationFollowsRename =>
       /\ last.isError
       /\ Arg.path \notin DOMAIN files
       /\ files = last.before

\* an insert addressed to the old path of a rename that succeeded
C30_Witness ==
  /\ C30_OperationFollowsRename
  /\ Called("notebook_add_cell")
  /\ prev.request.arguments.new_path \in DOMAIN files
  /\ files[prev.request.arguments.new_path].cells # <<>>

----------------------------------------------------------------------------
(* C22: every document the engine creates or accepts has nbformat 4: create  *)
(* stores nbformat 4, no operation changes the nbformat of a document, and   *)
(* validate fails on a document whose nbformat is not 4.  validateNotebook   *)
(* tests that the field is there and never reads its value, so the last part *)
(* fails.                                                                    *)

C22_FormatVersionIsFour ==
  /\ Called("notebook_create") => files[Arg.path].nbformat = 4
  /\ (Succeeded /\ "nbformat" \in DOMAIN last.before[Arg.path]) =>
       files[Arg.path].nbformat = last.before[Arg.path].nbformat
  /\ (Called("notebook_validate") /\ Loaded /\ last.before[Arg.path].nbformat # 4) => last.isError

----------------------------------------------------------------------------
(* C23: search(query, caseSensitive) reports exactly the cells whose         *)
(* normalized source contains the query as a substring (both case-folded     *)
(* unless caseSensitive), in cell order, each with its index, its type and   *)
(* exactly the lines that contain the query, numbered from 1 and trimmed.    *)
(* A case-insensitive search for Hello reports one match in a cell holding   *)
(* "Hello World" and one match in a cell holding "hello again".              *)

C23_Fold(str) == IF FalseByDefault(Arg.case_sensitive) THEN str ELSE toLowerCase(str)

C23_Contains(text, query) ==
  \E a \in 0..Len(text), b \in 0..Len(text) : a <= b /\ SubSeq(text, a + 1, b) = query

C23_Found(text) == C23_Contains(C23_Fold(text), C23_Fold(Arg.query))

C23_Lines(cell) == split(Text(cell), NL)

C23_HelloScenario(cell) ==
  /\ Arg.query = <<"H", "e", "l", "l", "o">>
  /\ ~FalseByDefault(Arg.case_sensitive)
  /\ Text(cell) \in {<<"H", "e", "l", "l", "o", " ", "W", "o", "r", "l", "d">>, <<"h", "e", "l", "l", "o", " ", "a", "g", "a", "i", "n">>}

C23_SearchReportsMatches ==
  (Called("notebook_search") /\ Loaded) =>
    /\ ~last.isError
    /\ files = last.before
    /\ \A i \in 0..(Len(Pre) - 1) :
         C23_Found(Text(Pre[i + 1])) <=> \E k \in DOMAIN last.text[2] : last.text[2][k].cell_index = i
    /\ \A k \in DOMAIN last.text[2] :
         LET result == last.text[2][k]
             cell == Pre[result.cell_index + 1]
             lines == C23_Lines(cell)
         IN  /\ InRange(result.cell_index, Len(Pre))
             /\ k > 1 => last.text[2][k - 1].cell_index < result.cell_index
             /\ result.cell_type = cell.cell_type
             /\ \A n \in 1..Len(lines) :
                  C23_Found(lines[n]) <=> \E m \in DOMAIN result.matches : result.matches[m].line_number = n
             /\ \A m \in DOMAIN result.matches :
                  /\ result.matches[m].line_number \in 1..Len(lines)
                  /\ m > 1 => result.matches[m - 1].line_number < result.matches[m].line_number
                  /\ result.matches[m].content = trim(lines[result.matches[m].line_number])
             /\ C23_HelloScenario(cell) => Len(result.matches) = 1

\* the scenario: both cells are reported, and a line of a third cell is trimmed
C23_Witness ==
  /\ Called("notebook_search")
  /\ Loaded
  /\ Len(Pre) = 2
  /\ \A i \in 1..2 : C23_HelloScenario(Pre[i])
  /\ Text(Pre[1]) # Text(Pre[2])
  /\ Len(last.text[2]) = 2

----------------------------------------------------------------------------
(* C24: in search the whole-source scan and the per-line scan agree: every   *)
(* cell that search reports has at least one reported line match.  As        *)
(* claimed, for every query: that fails for a query that holds a newline,    *)
(* which the whole source may contain and no single line does.               *)

C24_EveryReportedCellHasAMatch == \A k \in DOMAIN last.text[2] : last.text[2][k].matches # <<>>

\* the claim as stated
C24_ScansAlwaysAgree ==
  (Called("notebook_search") /\ Loaded) => C24_EveryReportedCellHasAMatch

\* the claim as amended: for every query without a newline
C24_ScansAgreeWithinALine ==
  (Called("notebook_search") /\ Loaded /\ \A j \in DOMAIN Arg.query : Arg.query[j] # NL) =>
    C24_EveryReportedCellHasAMatch

\* a case-folded query found in two lines of a cell of three lines
C24_Witness ==
  /\ Called("notebook_search")
  /\ Loaded
  /\ Arg.query = <<"a", "b">>
  /\ Arg.case_sensitive = <<>>
  /\ \E k \in DOMAIN last.text[2] : Len(last.text[2][k].matches) = 2

----------------------------------------------------------------------------
(* C25: in outline the title of a code cell comes from the first line of its *)
(* source that matches the function-definition or the class-definition       *)
(* pattern (whichever kind of line comes first), the title of a markdown     *)
(* cell from its first heading line, a cell with no matching line has no     *)
(* title, and there is one entry per cell, in cell order, with the cell's    *)
(* index and type.  getOutline looks for a function definition in the whole  *)
(* source before it looks for a class, and the white space of its patterns   *)
(* runs across line ends, so the property fails.                             *)

\* the title one line gives to a cell of a type
C25_LineTitle(type, line) ==
  outlineTitle(type, matchHeader(line), matchDefinition(line, <<"d", "e", "f">>),
               matchDefinition(line, <<"c", "l", "a", "s", "s">>))

C25_Title(cell) ==
  LET lines == split(Text(cell), NL)
      titled == {n \in 1..Len(lines) : C25_LineTitle(cell.cell_type, lines[n]) # <<>>}
  IN  IF titled = {} THEN <<>>
      ELSE C25_LineTitle(cell.cell_type, lines[CHOOSE n \in titled : \A m \in titled : n <= m])

C25_OutlineTitles ==
  (Called("notebook_get_outline") /\ Loaded) =>
    /\ ~last.isError
    /\ Len(last.text[2]) = Len(Pre)
    /\ \A k \in DOMAIN last.text[2] :
         /\ last.text[2][k].index = k - 1
         /\ last.text[2][k].cell_type = Pre[k].cell_type
         /\ last.text[2][k].title = C25_Title(Pre[k])

----------------------------------------------------------------------------
(* C28: read_cell_metadata(i) and read_cell_output(i) fail when i is outside *)
(* [0,len) and otherwise return the stored field, {} or [] when the cell has *)
(* none: read_cell_output on a markdown or raw cell in range succeeds with   *)
(* [].  Neither changes the stored documents.                                *)

C28_FieldOrDefault(cell, field, default) == IF field \in DOMAIN cell THEN cell[field] ELSE default

C28_Reads(tool, field, default) ==
  (Called(tool) /\ Loaded) =>
    /\ files = last.before
    /\ IF InRange(Arg.cell_index, Len(Pre))
       THEN ~last.isError /\ last.text[2] = C28_FieldOrDefault(Pre[Arg.cell_index + 1], field, default)
       ELSE last.isError

C28_ReadsFieldOrDefault ==
  /\ C28_Reads("notebook_read_cell_metadata", "metadata", EmptyObject)
  /\ C28_Reads("notebook_read_cell_output", "outputs", <<>>)

\* read_cell_output on a markdown cell, which has no outputs, after a code cell that has
C28_Witness ==
  /\ Called("notebook_read_cell_output")
  /\ Loaded
  /\ Arg.cell_index = 1
  /\ Len(Pre) = 2
  /\ Pre[1].cell_type = "code" /\ "outputs" \in DOMAIN Pre[1] /\ Pre[1].outputs # <<>>
  /\ Pre[2].cell_type = "markdown" /\ "outputs" \notin DOMAIN Pre[2]
  /\ ~last.isError
  /\ last.text[2] = <<>>

----------------------------------------------------------------------------
(* C26: every tool call receives a response.  A call naming a tool that does *)
(* not exist and an operation that fails yield an error result with a        *)
(* message saying why, and store nothing; the dispatcher goes on, so that    *)
(* every call, those that come after an error too, is answered.              *)

C26_ToolNames == CellTools \cup {"notebook_create", "notebook_rename", "notebook_export"}

C26_ErrorIsAResult ==
  /\ (last # NoCall /\ last.request.name \notin C26_ToolNames) =>
       (last.isError /\ last.text[1] = "Unknown tool")
  /\ last.isError => (last.text[1] # "" /\ files = last.before)

C26_EveryCallIsAnswered ==
  /\ []C26_ErrorIsAResult
  /\ \A c \in Clients : (calls[c] # Idle) ~> (calls[c] = Idle)

\* a call naming an unknown tool was answered with an error, and the call
\* after it, a delete that fails, is answered too
C26_Witness ==
  /\ \A c \in Clients : calls[c] = Idle
  /\ prev.isError
  /\ prev.request.name = "notebook_run_cell"
  /\ last.request.name = "notebook_delete_cell"
  /\ last.isError
  /\ last.text[1] = "Cell index out of bounds"

----------------------------------------------------------------------------
(* C27: for 0 <= i < len, delete(i) followed by insert(i-1, type, source)    *)
(* restores the cell count, puts the new cell at position i and leaves every *)
(* other cell at its position.  The new cell has empty metadata and, if      *)
(* code, no execution count and no outputs: the document equals the original *)
(* only if the deleted cell had that type, that source, empty metadata and   *)
(* the default execution state.                                              *)

C27_InsertFollowsDelete ==
  /\ prev.request.name = "notebook_delete_cell"
  /\ ~prev.isError
  /\ Called("notebook_add_cell")
  /\ Arg.path = prev.request.arguments.path
  /\ Arg.index = prev.request.arguments.cell_index - 1

C27_Original == prev.before[Arg.path].cells

C27_IsFresh(cell) ==
  /\ cell.cell_type = Arg.cell_type
  /\ Text(cell) = Arg.source
  /\ "metadata" \in DOMAIN cell /\ cell.metadata = EmptyObject
  /\ IF Arg.cell_type = "code"
     THEN HasExecutionState(cell) /\ cell.execution_count = "null" /\ cell.outputs = <<>>
     ELSE HasNoExecutionState(cell)

C27_InsertAfterDeleteRestoresShape ==
  C27_InsertFollowsDelete =>
    LET i == prev.request.arguments.cell_index
    IN  /\ InRange(i, Len(C27_Original))
        /\ ~last.isError
        /\ Len(Post) = Len(C27_Original)
        /\ C27_IsFresh(Post[i + 1])
        /\ \A k \in 1..Len(Post) : k # i + 1 => Post[k] = C27_Original[k]
        /\ files[Arg.path] = prev.before[Arg.path] => C27_IsFresh(C27_Original[i + 1])

\* the first of two cells is deleted and a cell that differs from it is inserted in its place
C27_Witness ==
  /\ C27_InsertFollowsDelete
  /\ prev.request.arguments.cell_index = 0
  /\ Len(Post) = 2
  /\ Post[1] # C27_Original[1]
  /\ Post[2] = C27_Original[2]

----------------------------------------------------------------------------
(* C31: after move(from, to) with both indices in [0,len) the moved cell is *)
(* at index to of the resulting sequence and the other cells keep their     *)
(* relative order; so for from < to the moved cell stands immediately after *)
(* the cell that was at index to, and for from > to immediately before it.  *)

\* seq without the cell at 0-based position pos
C31_Others(seq, pos) == Cells(seq, 0, pos) \o Cells(seq, pos + 1, Len(seq))

C31_MoveLandsAtTarget ==
  (/\ Loaded /\ Called("notebook_move_cell")
   /\ InRange(Arg.from_index, Len(Pre)) /\ InRange(Arg.to_index, Len(Pre))) =>
    LET from == Arg.from_index
        to == Arg.to_index
    IN  /\ ~last.isError
        /\ Len(Post) = Len(Pre)
        /\ Post[to + 1] = Pre[from + 1]
        /\ C31_Others(Post, to) = C31_Others(Pre, from)
        /\ from < to => Post[to] = Pre[to + 1]
        /\ from > to => Post[to + 2] = Pre[to + 1]

\* the last of three different cells has been moved to the front, and now
\* stands immediately before the cell that was first
C31_Witness ==
  /\ Succeeded /\ Called("notebook_move_cell") /\ Arg.from_index = 2 /\ Arg.to_index = 0
  /\ Len(Pre) = 3 /\ Cardinality({Pre[1], Pre[2], Pre[3]}) = 3
  /\ Post = <<Pre[3], Pre[1], Pre[2]>>

----------------------------------------------------------------------------
(* C32: for from < to, move(from, to) leaves the moved cell one position    *)
(* earlier than the position it would have if it were inserted immediately  *)
(* before the cell that was at index to.  As claimed the direction is       *)
(* wrong: the moved cell ends one position later than that, immediately     *)
(* after the cell that was at index to.                                     *)

\* Post is Pre with the cell at from taken out and put back at 0-based position pos
C32_MovedTo(pos) ==
  /\ InRange(pos, Len(Pre))
  /\ Post[pos + 1] = Pre[Arg.from_index + 1]
  /\ C31_Others(Post, pos) = C31_Others(Pre, Arg.from_index)

\* a move whose indices are both in range and whose target lies behind its origin
C32_MovesForward ==
  /\ Loaded /\ Called("notebook_move_cell")
  /\ InRange(Arg.from_index, Len(Pre)) /\ InRange(Arg.to_index, Len(Pre))
  /\ Arg.from_index < Arg.to_index

\* the position, in the resulting sequence, of a cell that stands immediately
\* before the cell that was at index to: that cell has moved down to to-1,
\* so the position is to-1
C32_BeforeTarget == Arg.to_index - 1

\* C32 as claimed: one position earlier than immediately before the target
C32_MoveLandsOneEarlier ==
  C32_MovesForward => (~last.isError /\ C32_MovedTo(C32_BeforeTarget - 1))

\* C32 amended: one position later than immediately before the target
C32_MoveLandsOneLater ==
  C32_MovesForward => (~last.isError /\ C32_MovedTo(C32_BeforeTarget + 1))

\* the first of three different cells has been moved to index 1: it stands
\* behind the cell that was at index 1, not in front of it
C32_Witness ==
  /\ Succeeded /\ Called("notebook_move_cell") /\ Arg.from_index = 0 /\ Arg.to_index = 1
  /\ Len(Pre) = 3 /\ Cardinality({Pre[1], Pre[2], Pre[3]}) = 3
  /\ Post = <<Pre[2], Pre[1], Pre[3]>>

----------------------------------------------------------------------------
(* C33: each single-cell mutation (replace_source, retype, edit_metadata,   *)
(* edit_outputs, clear_outputs) on a valid index i leaves the cell count,   *)
(* every cell other than i, the document metadata and the format version    *)
(* unchanged; edit_document_metadata leaves the cell sequence and the       *)
(* format version unchanged.                                                *)

C33_SingleCellTools ==
  {"notebook_edit_cell", "notebook_change_cell_type", "notebook_edit_cell_metadata",
   "notebook_edit_cell_output", "notebook_clear_cell_outputs"}

\* the notebook of the call as it was stored before the call, and as it is stored now
C33_Before == last.before[Arg.path]
C33_After == files[Arg.path]

C33_MutationsKeepTheirFrame ==
  /\ (Loaded /\ last.request.name \in C33_SingleCellTools /\ InRange(Arg.cell_index, Len(Pre))) =>
       /\ Len(Post) = Len(Pre)
       /\ \A k \in DOMAIN Pre : k # Arg.cell_index + 1 => Post[k] = Pre[k]
       /\ C33_After.metadata = C33_Before.metadata
       /\ C33_After.nbformat = C33_Before.nbformat
       /\ C33_After.nbformat_minor = C33_Before.nbformat_minor
  /\ (Loaded /\ Called("notebook_edit_metadata")) =>
       /\ ~last.isError
       /\ Post = Pre
       /\ C33_After.nbformat = C33_Before.nbformat
       /\ C33_After.nbformat_minor = C33_Before.nbformat_minor

\* the metadata of a notebook of two cells has been changed, and its cells are as before
C33_Witness ==
  /\ Succeeded /\ Called("notebook_edit_metadata")
  /\ Len(Pre) = 2 /\ Post = Pre
  /\ C33_After.metadata # C33_Before.metadata

----------------------------------------------------------------------------
(* C34: the query operations (read, read_cell, read_cell_metadata,          *)
(* read_cell_output, count, read_metadata, info, outline, search, validate) *)
(* never change the stored documents, whether they succeed or fail.         *)

C34_Queries ==
  {"notebook_read", "notebook_read_cell", "notebook_read_cell_metadata",
   "notebook_read_cell_output", "notebook_get_cell_count", "notebook_read_metadata",
   "notebook_get_info", "notebook_get_outline", "notebook_search", "notebook_validate"}

C34_QueriesStoreNothing ==
  last.request.name \in C34_Queries => files = last.before

\* read_cell has answered with the source of a cell that is stored as two
\* fragments, and the cell is still stored as two fragments
C34_Witness ==
  /\ Succeeded /\ Called("notebook_read_cell")
  /\ Pre[Arg.cell_index + 1].source.isArray
  /\ Len(Pre[Arg.cell_index + 1].source.parts) = 2
  /\ files = last.before

----------------------------------------------------------------------------
(* C35: read_cell(i) returns the cell's source as one string: the fragments *)
(* concatenated in order with no separator when the source is stored as a   *)
(* fragment sequence, the string itself otherwise; and after a successful   *)
(* replace_source(i, s) or insert(i-1, type, s), read_cell(i) returns       *)
(* exactly s.  As claimed, the round trip through insert holds for every i: *)
(* it fails when i-1 is outside [-1,len), where the new cell does not land  *)
(* at index i.                                                              *)

RECURSIVE C35_Concatenated(_)
C35_Concatenated(fragments) ==
  IF fragments = <<>> THEN <<>> ELSE Head(fragments) \o C35_Concatenated(Tail(fragments))

C35_ReadReturnsSource ==
  (Loaded /\ Called("notebook_read_cell") /\ InRange(Arg.cell_index, Len(Pre))) =>
    LET source == Pre[Arg.cell_index + 1].source
    IN  /\ ~last.isError
        /\ last.text[2] = IF source.isArray THEN C35_Concatenated(source.parts)
                          ELSE source.parts[1]

\* read_cell has been served straight after a successful call on the same notebook
C35_ReadFollows(name) ==
  /\ Called("notebook_read_cell") /\ prev.request.name = name /\ ~prev.isError
  /\ prev.request.arguments.path = Arg.path
  /\ Arg.path \in DOMAIN prev.before
  /\ last.before = CallToolRequest(prev.before, prev.request).files

\* read_cell(i) follows replace_source(i, s)
C35_ReadFollowsReplace ==
  /\ C35_ReadFollows("notebook_edit_cell")
  /\ prev.request.arguments.cell_index = Arg.cell_index

\* read_cell(i) follows insert(i-1, type, s)
C35_ReadFollowsInsert ==
  /\ C35_ReadFollows("notebook_add_cell")
  /\ prev.request.arguments.index = Arg.cell_index - 1

----------------------------------------------------------------------------
(* C36: for -1 <= index < len, bulk_insert(index, [c1..ck]) produces the    *)
(* same document as the k single inserts insert(index, c1),                 *)
(* insert(index+1, c2), .., insert(index+k-1, ck) applied in that order,    *)
(* and bulk_insert with an empty list leaves the document unchanged.        *)

\* the notebook after insert(index, c1), insert(index+1, c2), ..
RECURSIVE C36_SingleInserts(_, _, _)
C36_SingleInserts(notebook, cells, index) ==
  IF cells = <<>> THEN notebook
  ELSE C36_SingleInserts(addCell(notebook, Head(cells).cell_type, Head(cells).source, index).notebook,
                         Tail(cells), index + 1)

C36_BulkInsertIsRepeatedInsert ==
  /\ (/\ Loaded /\ Called("notebook_bulk_add_cells")
      /\ -1 <= Arg.index /\ Arg.index < Len(Pre)) =>
       /\ ~last.isError
       /\ files = [last.before EXCEPT
                     ![Arg.path] = C36_SingleInserts(last.before[Arg.path], Arg.cells, Arg.index)]
  /\ (Loaded /\ Called("notebook_bulk_add_cells") /\ Arg.cells = <<>>) =>
       (~last.isError /\ files = last.before)

\* a markdown cell and a code cell have been inserted in front of the only
\* cell of a notebook
C36_Witness ==
  /\ Succeeded /\ Called("notebook_bulk_add_cells")
  /\ Len(Pre) = 1 /\ Arg.index = -1 /\ Len(Arg.cells) = 2
  /\ Post[1].cell_type = "markdown" /\ Post[2].cell_type = "code"
  /\ HasExecutionState(Post[2])
  /\ Post[3] = Pre[1]

----------------------------------------------------------------------------
(* C37: retype(i, code) on a cell that is already code is not a no-op: it   *)
(* resets execution_count to null and outputs to [] while keeping source    *)
(* and metadata; retype(i, t) on a markdown or raw cell already of type t   *)
(* leaves the document unchanged.                                           *)

\* retype(i, t) has been served on a cell whose type was t already
C37_RetypedToOwnType(t) ==
  /\ Loaded /\ Called("notebook_change_cell_type")
  /\ InRange(Arg.cell_index, Len(Pre))
  /\ Arg.new_type = t
  /\ Pre[Arg.cell_index + 1].cell_type = t

C37_RetypeToOwnType ==
  /\ C37_RetypedToOwnType("code") =>
       /\ ~last.isError
       /\ OnlyCellsChanged /\ OnlyCellChanged(Arg.cell_index)
       /\ Post[Arg.cell_index + 1] =
            [Pre[Arg.cell_index + 1] EXCEPT !.execution_count = "null", !.outputs = <<>>]
  /\ \A t \in {"markdown", "raw"} :
       C37_RetypedToOwnType(t) => (~last.isError /\ files = last.before)

\* an executed code cell with an output has been retyped to code, and has
\* lost its output and its execution count
C37_Witness ==
  /\ C37_RetypedToOwnType("code") /\ ~last.isError
  /\ Pre[Arg.cell_index + 1].outputs # <<>>
  /\ Pre[Arg.cell_index + 1].execution_count # "null"
  /\ Post[Arg.cell_index + 1].outputs = <<>>
  /\ Post[Arg.cell_index + 1].execution_count = "null"
  /\ Post[Arg.cell_index + 1].source = Pre[Arg.cell_index + 1].source

----------------------------------------------------------------------------
(* C38: split(i, k) keeps the original cell's metadata, execution_count and *)
(* outputs on cell i and copies none of them to the new cell at i+1; every  *)
(* cell other than i keeps its content, with the cells formerly at          *)
(* positions j > i now at j+1.                                              *)

C38_SplitKeepsStateOnFirstCell ==
  (/\ Loaded /\ Called("notebook_split_cell")
   /\ InRange(Arg.cell_index, Len(Pre))
   /\ InRange(Arg.line_number, LineCount(Text(Pre[Arg.cell_index + 1])))) =>
    LET i == Arg.cell_index
        original == Pre[i + 1]
        kept == Post[i + 1]
        new == Post[i + 2]
    IN  /\ ~last.isError
        /\ OnlyCellsChanged
        /\ DelField(kept, "source") = DelField(original, "source")
        /\ new.metadata = EmptyObject
        /\ IF original.cell_type = "code"
           THEN new.execution_count = "null" /\ new.outputs = <<>>
           ELSE HasNoExecutionState(new)
        /\ \A j \in 0 .. (Len(Pre) - 1) :
             /\ j < i => Post[j + 1] = Pre[j + 1]
             /\ j > i => Post[j + 2] = Pre[j + 1]

\* an executed code cell with metadata and an output has been split: the
\* metadata, the output and the execution count are on cell i, and the new
\* cell has none of them
C38_Witness ==
  /\ Succeeded /\ Called("notebook_split_cell")
  /\ Pre[Arg.cell_index + 1].cell_type = "code"
  /\ Pre[Arg.cell_index + 1].metadata # EmptyObject
  /\ Pre[Arg.cell_index + 1].outputs # <<>>
  /\ Pre[Arg.cell_index + 1].execution_count # "null"
  /\ Post[Arg.cell_index + 1].metadata = Pre[Arg.cell_index + 1].metadata
  /\ Post[Arg.cell_index + 1].outputs = Pre[Arg.cell_index + 1].outputs
  /\ Post[Arg.cell_index + 1].execution_count = Pre[Arg.cell_index + 1].execution_count
  /\ Post[Arg.cell_index + 2].metadata = EmptyObject
  /\ Post[Arg.cell_index + 2].outputs = <<>>

====
